---- MODULE Spec2Model ----
(***************************************************************************)
(* Planar-mechanism kinematics (pyslvs): the joint model (VPoint), the     *)
(* triangulation compiler (t_config) and the constraint solver wrapper     *)
(* (SolverSystem).  Joint indices, like the source's, start at 0: joint    *)
(* lists and status mappings are functions over 0..N-1; tuples of the      *)
(* source (links, c, the stack) are sequences, so links[0] of the source   *)
(* is links[1] here and c[0], c[1] are c[1], c[2].                         *)
(***************************************************************************)
EXTENDS Integers, Sequences, FiniteSets, TLC

\* ------------------------------------------------------------------ bounds
\* Largest joint list handed to t_config.
MaxJoints == 4
\* Longest input list handed to t_config.
MaxInputs == 2
\* Most entries beyond the joint list in a status mapping left over from an
\* earlier call.
MaxLeftover == 1
\* Largest joint list a SolverSystem is built from.
MaxSolverJoints == 3
\* Most items in a dict handed to set_inputs or set_data.
MaxArgument == 2
\* Most calls made on one SolverSystem.
MaxCalls == 2
\* Longest link text a VPoint is constructed from.
MaxLinkChars == 3
\* Most method calls made on one VPoint and its copy.
MaxSteps == 3

\* ------------------------------------------------------------ small helpers
Range(s) == {s[i] : i \in DOMAIN s}

\* Python's None.
None == <<>>

\* Iteration order of a Python set of small non-negative integers: the hash of
\* an int is the int itself, so the table is walked in ascending order.
RECURSIVE SetIter(_)
SetIter(S) ==
    IF S = {} THEN <<>>
    ELSE LET m == CHOOSE x \in S : \A y \in S : x <= y
         IN  <<m>> \o SetIter(S \ {m})

\* s[k:] of a Python tuple, k counted from 0.
Slice(s, k) == IF k >= Len(s) THEN <<>> ELSE SubSeq(s, k + 1, Len(s))

\* ------------------------------------------------------------------ VPoint
FRAME == "ground"

\* VPoint.__cinit__ once the link names are split: c[0] (and c[1] of a slider)
\* start at the design coordinates, the offset flag is off.
VPointNew(links, j_type, angle, x, y) ==
    [ links      |-> links,
      type       |-> j_type,
      angle      |-> angle,
      x          |-> x,
      y          |-> y,
      c          |-> IF j_type \in {"P", "RP"}
                     THEN << <<x, y>>, <<x, y>> >>
                     ELSE << <<x, y>>, None >>,
      has_offset |-> FALSE,
      offset     |-> 0 ]

set_offset(vp, offset) == [vp EXCEPT !.has_offset = TRUE, !.offset = offset]

has_offset(vp) == vp.has_offset

no_link(vp) == vp.links = <<>>

is_slot_link(vp, link_name) ==
    IF vp.type = "R" THEN FALSE
    ELSE IF vp.links # <<>> THEN link_name = vp.links[1]
    ELSE FALSE

grounded(vp) ==
    IF vp.type = "R" THEN FRAME \in Range(vp.links)
    ELSE IF vp.links # <<>> THEN is_slot_link(vp, FRAME)
    ELSE FALSE

pin_grounded(vp) == FRAME \in Range(Slice(vp.links, 1))

\* ------------------------------------------------ triangulation: the stack
P_LABEL == "P"
L_LABEL == "L"
A_LABEL == "a"
S_LABEL == "S"

sym(label, i) == <<label, i>>

\* A field of an Expr that the emitting method leaves unset.
NoSym == <<"", 0>>

add_pla(stack, c1, v1, v2, target) ==
    Append(stack, [func |-> "PLA", c1 |-> c1, v1 |-> v1, v2 |-> v2,
                   c2 |-> target, c3 |-> NoSym, c4 |-> NoSym, op |-> FALSE])

add_pllp(stack, c1, v1, v2, c2, target) ==
    Append(stack, [func |-> "PLLP", c1 |-> c1, v1 |-> v1, v2 |-> v2,
                   c2 |-> c2, c3 |-> target, c4 |-> NoSym, op |-> FALSE])

add_plpp(stack, c1, v1, c2, c3, target, op) ==
    Append(stack, [func |-> "PLPP", c1 |-> c1, v1 |-> v1, v2 |-> NoSym,
                   c2 |-> c2, c3 |-> c3, c4 |-> target, op |-> op])

add_pxy(stack, c1, v1, v2, target) ==
    Append(stack, [func |-> "PXY", c1 |-> c1, v1 |-> v1, v2 |-> v2,
                   c2 |-> target, c3 |-> NoSym, c4 |-> NoSym, op |-> FALSE])

\* The symbol a construction defines, and the point symbols it reads.
ExprTarget(e) ==
    CASE e.func \in {"PLA", "PXY"}   -> e.c2
      [] e.func \in {"PLAP", "PLLP"} -> e.c3
      [] OTHER                       -> e.c4

ExprOperands(e) ==
    CASE e.func \in {"PLA", "PXY"}   -> {e.c1}
      [] e.func \in {"PLAP", "PLLP"} -> {e.c1, e.c2}
      [] OTHER                       -> {e.c1, e.c2, e.c3}

\* ------------------------------------------- triangulation: pure helpers
_is_all_lock(status) == \A n \in DOMAIN status : status[n]

_clockwise_strict(c1, c2, c3) ==
    (c2[2] - c1[2]) * (c3[1] - c2[1]) - (c2[1] - c1[1]) * (c3[2] - c2[2]) > 0

\* The sign test of _clockwise on integer coordinates.
_clockwise(c1, c2, c3) ==
    LET val == (c2[2] - c1[2]) * (c3[1] - c2[1])
               - (c2[1] - c1[1]) * (c3[2] - c2[2])
    IN  val = 0 \/ val > 0

\* A generator: whether its body raises StopIteration before the first yield,
\* and otherwise the values it yields, in order.
Gen(raises, items) == [raises |-> raises, items |-> items]

RECURSIVE Concat(_)
Concat(ss) == IF ss = <<>> THEN <<>> ELSE Head(ss) \o Concat(Tail(ss))

_get_reliable_friend(node, vpoints, vlinks, status) ==
    LET links == vpoints[node].links
        OnLink(link) ==
            IF Cardinality(vlinks[link]) < 2 THEN <<>>
            ELSE LET Ok(friend) == status[friend] /\ friend # node
                 IN  SelectSeq(SetIter(vlinks[link]), Ok)
    IN  Concat([i \in DOMAIN links |-> OnLink(links[i])])

_get_not_base_friend(node, vpoints, vlinks, status) ==
    LET links == vpoints[node].links
        Ok(friend) == status[friend]
    IN  IF Len(links) < 2 THEN Gen(TRUE, <<>>)
        ELSE Gen(FALSE, SelectSeq(SetIter(vlinks[links[2]]), Ok))

_get_base_friend(node, vpoints, vlinks, status) ==
    LET links == vpoints[node].links
    IN  IF Len(links) < 1 THEN Gen(TRUE, <<>>)
        ELSE Gen(FALSE, SetIter(vlinks[links[1]]))

\* First base whose pair drives `node`, -1 when there is none.
_get_input_base(node, inputs) ==
    LET hits == {i \in DOMAIN inputs : inputs[i][2] = node}
    IN  IF hits = {} THEN -1
        ELSE inputs[CHOOSE i \in hits : \A j \in hits : i <= j][1]

\* ------------------------------------------ triangulation: preprocessing
\* status[n] after the first loop over the joints; entries the caller's
\* mapping holds for other keys are left as they are.
StatusInit(vps, st) ==
    [n \in (DOMAIN st) \cup (DOMAIN vps) |->
        IF n \in DOMAIN vps
        THEN IF vps[n].links # <<>>
             THEN vps[n].type = "R" /\ FRAME \in Range(vps[n].links)
             ELSE TRUE
        ELSE st[n]]

MakeVLinks(vps) ==
    [link \in UNION {Range(vps[n].links) : n \in DOMAIN vps} |->
        {n \in DOMAIN vps : link \in Range(vps[n].links)}]

\* The RP joint that replaces the R joint vpoint_ on a pin link of the
\* grounded P joint vpoint.
PromotedJoint(vpoint, vpoint_) ==
    LET NotOfBase(link_) == link_ \notin Range(vpoint.links)
    IN  VPointNew(<<vpoint.links[1]>> \o SelectSeq(vpoint_.links, NotOfBase),
                  "RP", vpoint.angle, vpoint_.x, vpoint_.y)

RECURSIVE PromoteNodes(_, _, _)
PromoteNodes(vps, base, nodes) ==
    IF nodes = <<>> THEN vps
    ELSE LET node == Head(nodes)
             next == IF node = base \/ vps[node].type # "R" THEN vps
                     ELSE [vps EXCEPT ![node] = PromotedJoint(vps[base], vps[node])]
         IN  PromoteNodes(next, base, Tail(nodes))

RECURSIVE PromoteLinks(_, _, _, _)
PromoteLinks(vps, vlinks, base, links) ==
    IF links = <<>> THEN vps
    ELSE PromoteLinks(PromoteNodes(vps, base, SetIter(vlinks[Head(links)])),
                      vlinks, base, Tail(links))

RECURSIVE PromoteBases(_, _, _)
PromoteBases(vps, vlinks, base) ==
    IF base \notin DOMAIN vps THEN vps
    ELSE IF vps[base].type # "P" \/ ~grounded(vps[base])
         THEN PromoteBases(vps, vlinks, base + 1)
         ELSE PromoteBases(
                 PromoteLinks(vps, vlinks, base, Slice(vps[base].links, 1)),
                 vlinks, base + 1)

Positions(vps) ==
    [n \in DOMAIN vps |-> IF vps[n].type = "R" THEN vps[n].c[1] ELSE vps[n].c[2]]

\* The loop over the input pairs: a PLA for every pair whose base is solved.
\* t is [exprs, status, link_symbol, angle_symbol].
RECURSIVE DriverEmission(_, _)
DriverEmission(t, inputs) ==
    IF inputs = <<>> THEN t
    ELSE LET base == Head(inputs)[1]
             node == Head(inputs)[2]
             next ==
                 IF t.status[base]
                 THEN [exprs |-> add_pla(t.exprs, sym(P_LABEL, base),
                                         sym(L_LABEL, t.link_symbol),
                                         sym(A_LABEL, t.angle_symbol),
                                         sym(P_LABEL, node)),
                       status |-> [n \in (DOMAIN t.status) \cup {node} |->
                                      IF n = node THEN TRUE ELSE t.status[n]],
                       link_symbol |-> t.link_symbol + 1,
                       angle_symbol |-> t.angle_symbol + 1]
                 ELSE t
         IN  DriverEmission(next, Tail(inputs))

\* ---------------------------------------------- triangulation: productions
\* cos and sin of a slot angle given in degrees, in thousandths.
CosMilli(angle) ==
    CASE angle = 0 -> 1000 [] angle = 45 -> 707 [] angle = 90 -> 0
      [] angle = 135 -> -707 [] OTHER -> -1000

SinMilli(angle) ==
    CASE angle = 0 -> 0 [] angle = 45 -> 707 [] angle = 90 -> 1000
      [] angle = 135 -> 707 [] OTHER -> 0

Milli(c) == <<c[1] * 1000, c[2] * 1000>>

\* The synthetic slot-end point (tmp_x, tmp_y) of an RP joint, in thousandths.
SlotPoint(pos_n, angle) ==
    <<pos_n[1] * 1000 + CosMilli(angle), pos_n[2] * 1000 + SinMilli(angle)>>

\* A no-progress visit that forgets to count itself.
SkipIncStuck(skip) == skip

\* skip_times after a visit that made no progress.
SkipInc(skip) == skip + 1

\* The three guards the P and the RP production raise StopIteration on
\* before they ask for a friend.
SliderRefused(vp) == pin_grounded(vp) \/ ~grounded(vp) \/ has_offset(vp)

\* Input-target R joint with a solved base: the driver PLA.
EmitInputPLA(t, base, node) ==
    [exprs |-> add_pla(t.exprs, sym(P_LABEL, base), sym(L_LABEL, t.link_symbol),
                       sym(A_LABEL, t.angle_symbol), sym(P_LABEL, node)),
     status |-> [t.status EXCEPT ![node] = TRUE],
     link_symbol |-> t.link_symbol + 1,
     angle_symbol |-> t.angle_symbol + 1]

EmitPLLPUnswapped(t, pos, fa0, fb0, node) ==
    [exprs |-> add_pllp(t.exprs, sym(P_LABEL, fa0), sym(L_LABEL, t.link_symbol),
                        sym(L_LABEL, t.link_symbol + 1), sym(P_LABEL, fb0),
                        sym(P_LABEL, node)),
     status |-> [t.status EXCEPT ![node] = TRUE],
     link_symbol |-> t.link_symbol + 2,
     angle_symbol |-> t.angle_symbol]

\* Plain R joint with two solved friends: the PLLP, friends swapped when the
\* orientation test on (fa, node, fb) fails.
EmitPLLP(t, pos, fa0, fb0, node) ==
    LET swap == ~_clockwise(pos[fa0], pos[node], pos[fb0])
        fa == IF swap THEN fb0 ELSE fa0
        fb == IF swap THEN fa0 ELSE fb0
    IN  [exprs |-> add_pllp(t.exprs, sym(P_LABEL, fa), sym(L_LABEL, t.link_symbol),
                            sym(L_LABEL, t.link_symbol + 1), sym(P_LABEL, fb),
                            sym(P_LABEL, node)),
         status |-> [t.status EXCEPT ![node] = TRUE],
         link_symbol |-> t.link_symbol + 2,
         angle_symbol |-> t.angle_symbol]

\* The PXY given to every still unsolved joint of one pin link of a solved P.
RECURSIVE PropagateNodes(_, _, _)
PropagateNodes(t, node, friends) ==
    IF friends = <<>> THEN t
    ELSE LET fb == Head(friends)
             next ==
                 IF t.status[fb] THEN t
                 ELSE [exprs |-> add_pxy(t.exprs, sym(P_LABEL, node),
                                         sym(L_LABEL, t.link_symbol),
                                         sym(L_LABEL, t.link_symbol + 1),
                                         sym(P_LABEL, fb)),
                       status |-> [t.status EXCEPT ![fb] = TRUE],
                       link_symbol |-> t.link_symbol + 2,
                       angle_symbol |-> t.angle_symbol]
         IN  PropagateNodes(next, node, Tail(friends))

RECURSIVE PropagateLinks(_, _, _, _)
PropagateLinks(t, vlinks, node, links) ==
    IF links = <<>> THEN t
    ELSE PropagateLinks(PropagateNodes(t, node, SetIter(vlinks[Head(links)])),
                        vlinks, node, Tail(links))

\* Grounded P joint with a solved pin-side friend fa.
EmitPXY(t, vpoints, vlinks, fa, node) ==
    LET own == [exprs |-> add_pxy(t.exprs, sym(P_LABEL, fa),
                                  sym(L_LABEL, t.link_symbol),
                                  sym(L_LABEL, t.link_symbol + 1),
                                  sym(P_LABEL, node)),
                status |-> [t.status EXCEPT ![node] = TRUE],
                link_symbol |-> t.link_symbol + 2,
                angle_symbol |-> t.angle_symbol]
    IN  PropagateLinks(own, vlinks, node, Slice(vpoints[node].links, 1))

EmitRPReusingLength(t, vpoints, pos, fa, fb0, node) ==
    LET swap == ~_clockwise(Milli(pos[fb0]), SlotPoint(pos[node], vpoints[node].angle),
                            Milli(pos[node]))
        one  == add_pllp(t.exprs, sym(P_LABEL, IF swap THEN node ELSE fb0),
                         sym(L_LABEL, t.link_symbol), sym(L_LABEL, t.link_symbol + 1),
                         sym(P_LABEL, IF swap THEN fb0 ELSE node), sym(S_LABEL, node))
    IN  [exprs |-> add_plpp(one, sym(P_LABEL, fa), sym(L_LABEL, t.link_symbol + 1),
                            sym(P_LABEL, node), sym(S_LABEL, node),
                            sym(P_LABEL, node), FALSE),
         status |-> [t.status EXCEPT ![node] = TRUE],
         link_symbol |-> t.link_symbol + 2,
         angle_symbol |-> t.angle_symbol]

\* Grounded RP joint with pin-side friend fa and base-side friend fb0: the
\* PLLP that places the slot point S, then the PLPP that places the pin.
EmitRP(t, vpoints, pos, fa, fb0, node) ==
    LET s    == SlotPoint(pos[node], vpoints[node].angle)
        swap == ~_clockwise(Milli(pos[fb0]), s, Milli(pos[node]))
        fb   == IF swap THEN node ELSE fb0
        fc   == IF swap THEN fb0 ELSE node
        op   == ((pos[fa][1] - pos[node][1] > 0) # (vpoints[node].angle > 90))
        one  == add_pllp(t.exprs, sym(P_LABEL, fb), sym(L_LABEL, t.link_symbol),
                         sym(L_LABEL, t.link_symbol + 1), sym(P_LABEL, fc),
                         sym(S_LABEL, node))
    IN  [exprs |-> add_plpp(one, sym(P_LABEL, fa), sym(L_LABEL, t.link_symbol + 2),
                            sym(P_LABEL, node), sym(S_LABEL, node),
                            sym(P_LABEL, node), op),
         status |-> [t.status EXCEPT ![node] = TRUE],
         link_symbol |-> t.link_symbol + 3,
         angle_symbol |-> t.angle_symbol]

\* ------------------------------------------- VPoint: distances and slopes
\* hypot on the integer differences of the mechanisms explored, rounded down.
hypot(dx, dy) ==
    LET sq == dx * dx + dy * dy
    IN  CHOOSE r \in 0 .. sq : r * r <= sq /\ sq < (r + 1) * (r + 1)

true_offset(vp) == hypot(vp.c[2][1] - vp.c[1][1], vp.c[2][2] - vp.c[1][2])

\* The end of joint vp that lies on the link on_link: c[0] for an R joint or
\* on the joint's base link, the pin c[1] otherwise.
ContactEnd(vp, on_link) ==
    IF vp.type = "R" \/ vp.links[1] = on_link THEN vp.c[1] ELSE vp.c[2]

\* distance(self, p), on_link being on_links[0] of the shared links (any
\* link when they share none: both ends are then c[0]).
distance(self, p, on_link) ==
    LET shared == Range(self.links) \cap Range(p.links)
        m == IF shared # {} THEN ContactEnd(self, on_link) ELSE self.c[1]
        q == IF shared # {} THEN ContactEnd(p, on_link) ELSE p.c[1]
    IN  hypot(q[1] - m[1], q[2] - m[2])

\* atan2 in whole degrees for the differences of the mechanisms explored.
atan2(dy, dx) ==
    CASE dy = 0 /\ dx >= 0 -> 0
      [] dy = 0 /\ dx < 0  -> 180
      [] dx = 0 /\ dy > 0  -> 90
      [] dx = 0 /\ dy < 0  -> -90
      [] dx > 0 /\ dy > 0  -> 53
      [] dx < 0 /\ dy > 0  -> 127
      [] dx > 0 /\ dy < 0  -> -53
      [] OTHER             -> -127

\* The two ends slope_angle reads: (x2, y2) of self, (x1, y1) of p.  The end
\* of self is chosen by num1 but read at index num2.
SlopeAngleReads(self, p, num1, num2) ==
    [ me    |-> IF num1 > 1 THEN <<self.x, self.y>> ELSE self.c[num2 + 1],
      other |-> IF num2 > 1 THEN <<p.x, p.y>> ELSE p.c[num2 + 1] ]

\* slope_angle raises where a read leaves the two cells of c (IndexError) or
\* unpacks the None in c[1] of an R joint (TypeError).
SlopeAngleRaises(self, p, num1, num2) ==
    \/ num1 <= 1 /\ (num2 > 1 \/ self.c[num2 + 1] = None)
    \/ num2 <= 1 /\ p.c[num2 + 1] = None

slope_angle_reversed(self, p, num1, num2) ==
    LET r == SlopeAngleReads(self, p, num1, num2)
    IN  atan2(r.me[2] - r.other[2], r.me[1] - r.other[1])

\* slope_angle(self, p, num1, num2) = atan2(y1 - y2, x1 - x2) in degrees.
slope_angle(self, p, num1, num2) ==
    LET r == SlopeAngleReads(self, p, num1, num2)
    IN  atan2(r.other[2] - r.me[2], r.other[1] - r.me[1])

\* ------------------------------------- VPoint: link text, moves and copies
\* A str is a sequence of one-character strings.
\* str.split(','): the pieces between the commas, empty pieces included.
RECURSIVE split(_)
split(text) ==
    IF \A i \in DOMAIN text : text[i] # ","
    THEN <<text>>
    ELSE LET k == CHOOSE i \in DOMAIN text :
                      text[i] = "," /\ \A j \in 1 .. i - 1 : text[j] # ","
         IN  <<SubSeq(text, 1, k - 1)>> \o split(SubSeq(text, k + 1, Len(text)))

\* str.replace(" ", '').
replace(text) == SelectSeq(text, LAMBDA ch : ch # " ")

\* The link tuple __cinit__ builds from its text: the non-empty pieces, in
\* order, each as often as the text names it.
ParseLinks(text) == SelectSeq(split(replace(text)), LAMBDA name : name # <<>>)

\* ", ".join(links).
RECURSIVE join(_)
join(links) ==
    IF links = <<>> THEN <<>>
    ELSE IF Len(links) = 1 THEN links[1]
    ELSE links[1] \o <<",", " ">> \o join(Tail(links))

\* The items of a sequence, each once, in the order they first occur.
RECURSIVE FirstOccurrences(_)
FirstOccurrences(s) ==
    IF s = <<>> THEN <<>>
    ELSE LET r == FirstOccurrences(SubSeq(s, 1, Len(s) - 1))
         IN  IF s[Len(s)] \in Range(r) THEN r ELSE Append(r, s[Len(s)])

\* A number for a link name, standing for its hash.
RECURSIVE NameCode(_)
NameCode(name) ==
    IF name = <<>> THEN 0
    ELSE (IF Head(name) = "a" THEN 1 ELSE 2) + 3 * NameCode(Tail(name))

\* The ways the str hashes of one interpreter can lay out a small set:
\* slots in the order of the hashes, in the opposite order, or, the hashes
\* colliding, in the order of insertion.
Layouts == {"hashed", "reversed", "inserted"}

RECURSIVE ByCode(_, _)
ByCode(S, up) ==
    IF S = {} THEN <<>>
    ELSE LET m == CHOOSE x \in S : \A y \in S :
                      IF up THEN NameCode(x) <= NameCode(y)
                            ELSE NameCode(x) >= NameCode(y)
         IN  <<m>> \o ByCode(S \ {m}, up)

\* Iteration order of the set built by adding the items in sequence.
StrSetIter(items, layout) ==
    IF layout = "inserted" THEN FirstOccurrences(items)
    ELSE ByCode(Range(items), layout = "hashed")

\* tuple(set(self.links) & set(p.links)): the intersection walks the right
\* operand, or the left one when the right one is larger, and adds what the
\* other holds to a new set.
on_links(self, p, layout) ==
    LET so    == StrSetIter(self.links, layout)
        other == StrSetIter(p.links, layout)
        walk  == IF Len(other) > Len(so) THEN so ELSE other
        held  == IF Len(other) > Len(so) THEN Range(other) ELSE Range(so)
    IN  StrSetIter(SelectSeq(walk, LAMBDA name : name \in held), layout)

\* self.distance(p) in an interpreter whose sets are laid out as layout.
Distance(self, p, layout) ==
    LET on == on_links(self, p, layout)
    IN  distance(self, p, IF on # <<>> THEN on[1] ELSE None)

\* VPoint(links, j_type, angle, color_str, x, y).
VPoint(text, j_type, angle, x, y) ==
    VPointNew(ParseLinks(text), j_type, angle, x, y)

\* move(c1, c2): c[0] takes c1; the pin c[1] of a slider takes c2, or c1 when
\* c2 is None.
move(vp, c1, c2) ==
    [vp EXCEPT !.c = IF vp.type \in {"P", "RP"}
                     THEN <<c1, IF c2 # None THEN c2 ELSE c1>>
                     ELSE <<c1, @[2]>>]

\* A double near a whole number of degrees: whole + tiny * e, e far below the
\* spacing of the doubles around any whole number but zero.
Double(whole, tiny) == [whole |-> whole, tiny |-> tiny]

\* The double nearest to whole + tiny * e: only around zero is the tiny part
\* kept.
Nearest(whole, tiny) == IF whole = 0 THEN Double(0, tiny) ELSE Double(whole, 0)

Negative(d) == d.whole < 0 \/ (d.whole = 0 /\ d.tiny < 0)

\* fmod(a, b) of the libc for a whole b > 0: the remainder carries the sign
\* of a.
fmod(a, b) ==
    IF a.whole = 0 THEN a
    ELSE IF a.whole > 0 THEN Double(a.whole % b, 0)
    ELSE Double(0 - ((0 - a.whole) % b), 0)

\* a % b on doubles as compiled without cdivision: a remainder of the other
\* sign than b has b added to it, and the sum is rounded to a double.
mod_double(a, b) ==
    LET r == fmod(a, b)
    IN  IF r # Double(0, 0) /\ Negative(r)
        THEN Nearest(r.whole + b, r.tiny)
        ELSE r

\* rotate(angle): self.angle = angle % 180.
rotate(vp, angle) == [vp EXCEPT !.angle = mod_double(angle, 180)]

disable_offset(vp) == [vp EXCEPT !.has_offset = FALSE]

copy_unmoved(vp) == VPoint(join(vp.links), vp.type, vp.angle, vp.x, vp.y)

\* __copy__: a joint built anew from the joined link names, the type, the
\* angle and the design coordinates, then moved to the current ones.
__copy__(vp) ==
    move(VPoint(join(vp.links), vp.type, vp.angle, vp.x, vp.y), vp.c[1], vp.c[2])

copy(vp) == __copy__(vp)

\* __richcmp__ with Py_EQ: links, c, type, x, y and angle are compared.
__richcmp__(self, other) ==
    /\ self.links = other.links
    /\ \A i \in 1 .. 2 : self.c[i] = other.c[i]
    /\ self.type = other.type
    /\ self.x = other.x
    /\ self.y = other.y
    /\ self.angle = other.angle

\* ------------------------------------------------ SolverSystem: the pools
\* Every cell of a pool holds thousandths of the double the source stores.
Thousandths(v) == v * 1000

\* _radians(degree), in thousandths of a radian.
_radians(degree) == (degree * 3142) \div 180

\* cos and sin of the libc, handed the slot angle as it is (a number of
\* degrees read as radians), in thousandths.
cos(x) ==
    CASE x = 0 -> 1000 [] x = 45 -> 525 [] x = 90 -> -448 [] OTHER -> -996

sin(x) ==
    CASE x = 0 -> 0 [] x = 45 -> 851 [] x = 90 -> 894 [] OTHER -> 88

\* Keys of data_dict: the joint index i is written {i}, the pair
\* frozenset({a, b}), a # b, is written {a, b}.
JointKey(i) == {i}
PairKey(a, b) == {a, b}

\* A key as the caller writes it: <<i>> for the joint index i, <<a, b>> for
\* the tuple (a, b).  _sort_pairs turns every key of length 2 into its
\* frozenset; the dictionaries explored are small enough for its loop to
\* reach every key.
SortedKey(k) == IF Len(k) = 2 THEN PairKey(k[1], k[2]) ELSE JointKey(k[1])

\* The dictionary left by _sort_pairs on the items <<key, value>> of the
\* caller, a later item of the same key replacing an earlier one.
_sort_pairs(items) ==
    [key \in {SortedKey(items[n][1]) : n \in DOMAIN items} |->
        LET hits == {n \in DOMAIN items : SortedKey(items[n][1]) = key}
        IN  items[CHOOSE n \in hits : \A m \in hits : m <= n][2]]

\* A pointer into one of the containers of the solver.
Ref(pool, at) == <<pool, at>>
NoRef == <<"", 0>>

\* pool.push_back(x); pool.push_back(y)
PushXY(s, pool, xy) == [s EXCEPT ![pool] = @ \o xy]

\* The Point on the two cells pushed last to pool.
PointAtEnd(s, pool) ==
    [x |-> Ref(pool, Len(s[pool]) - 1), y |-> Ref(pool, Len(s[pool]))]

\* points.push_back([...]) on the two cells pushed last to pool.
PushPoint(s, pool) == [s EXCEPT !.points = Append(@, PointAtEnd(s, pool))]

\* The constraints of sketch_solve that build emits.
PointOnPointConstraint(p1, p2) ==
    [type |-> "PointOnPoint", point1 |-> p1, point2 |-> p2,
     line1 |-> NoRef, line2 |-> NoRef, parameter |-> NoRef]

P2PDistanceConstraint(p1, p2, d) ==
    [type |-> "P2PDistance", point1 |-> p1, point2 |-> p2,
     line1 |-> NoRef, line2 |-> NoRef, parameter |-> d]

PointOnLineConstraint(p1, l1) ==
    [type |-> "PointOnLine", point1 |-> p1, point2 |-> NoRef,
     line1 |-> l1, line2 |-> NoRef, parameter |-> NoRef]

InternalAngleConstraint(l1, l2, a) ==
    [type |-> "InternalAngle", point1 |-> NoRef, point2 |-> NoRef,
     line1 |-> l1, line2 |-> l2, parameter |-> a]

LineInternalAngleConstraint(l1, a) ==
    [type |-> "LineInternalAngle", point1 |-> NoRef, point2 |-> NoRef,
     line1 |-> l1, line2 |-> NoRef, parameter |-> a]

\* get_vlinks: one link per name, names in the order the joints first mention
\* them, the joints of a link in ascending order.
RECURSIVE AddNames(_, _)
AddNames(names, links) ==
    IF links = <<>> THEN names
    ELSE AddNames(IF Head(links) \in Range(names) THEN names
                  ELSE Append(names, Head(links)),
                  Tail(links))

RECURSIVE NamesFrom(_, _, _)
NamesFrom(vps, i, names) ==
    IF i \notin DOMAIN vps THEN names
    ELSE NamesFrom(vps, i + 1, AddNames(names, vps[i].links))

get_vlinks(vps) ==
    LET names == NamesFrom(vps, 0, <<>>)
    IN  [k \in DOMAIN names |->
            [name   |-> names[k],
             points |-> SetIter({n \in DOMAIN vps : names[k] \in Range(vps[n].links)})]]

\* self.vlinks[name]
VLinkNamed(s, name) ==
    s.vlinks[CHOOSE k \in DOMAIN s.vlinks : s.vlinks[k].name = name]

\* ---------------------------------- SolverSystem.build_expression: points
\* A joint with known coordinates: its two cells go to data_values.
KnownPoint(s, i) ==
    LET coord == s.data_dict[JointKey(i)]
        t == PushXY(s, "data_values", <<Thousandths(coord[1]), Thousandths(coord[2])>>)
    IN  [PushPoint(t, "data_values") EXCEPT
            !.data_owner = @ \o <<[key |-> JointKey(i), part |-> 1],
                                  [key |-> JointKey(i), part |-> 2]>>]

\* Where the pin of a slider starts: c[1], moved off the slot end by 0.1
\* when an active offset finds the two on top of each other.
PinStart(vp) ==
    LET c == Milli(vp.c[2])
    IN  IF has_offset(vp) /\ Thousandths(true_offset(vp)) <= 100
        THEN IF vp.offset > 0 THEN <<c[1] + 100, c[2] + 100>>
                              ELSE <<c[1] - 100, c[2] - 100>>
        ELSE c

\* Registration of slider i, its base on the two cells pushed last to
\* base_pool: the base, then the movable slot end.
SliderParts(s, i, base_pool) ==
    LET vp   == s.vpoints[i]
        c0   == Milli(vp.c[1])
        reg  == [s EXCEPT !.sliders = @ @@ (i :> Len(s.slider_bases)),
                          !.slider_bases = Append(@, PointAtEnd(s, base_pool))]
        slot == PushXY(reg, "params", <<c0[1] + cos(vp.angle), c0[2] + sin(vp.angle)>>)
    IN  [slot EXCEPT !.slider_slots = Append(@, PointAtEnd(slot, "params"))]

BuildPoint(s, i) ==
    LET vp == s.vpoints[i]
        known == JointKey(i) \in DOMAIN s.data_dict
        slider == vp.type \in {"P", "RP"}
    IN  IF no_link(vp)
        THEN PushPoint(PushXY(s, "constants", Milli(vp.c[1])), "constants")
        ELSE IF grounded(vp)
        THEN IF known THEN KnownPoint(s, i)
             ELSE LET t == PushXY(s, "constants", Milli(vp.c[1]))
                  IN  IF slider
                      THEN PushPoint(PushXY(SliderParts(t, i, "constants"),
                                            "params", PinStart(vp)), "params")
                      ELSE PushPoint(t, "constants")
        ELSE IF known THEN KnownPoint(s, i)
        ELSE LET t == PushXY(s, "params", Milli(vp.c[1]))
             IN  IF slider
                 THEN LET u == SliderParts(t, i, "params")
                      IN  IF pin_grounded(vp)
                          THEN PushPoint(PushXY(u, "constants", Milli(vp.c[2])),
                                         "constants")
                          ELSE PushPoint(PushXY(u, "params", PinStart(vp)), "params")
                 ELSE PushPoint(t, "params")

RECURSIVE BuildPoints(_, _)
BuildPoints(s, i) ==
    IF i \notin DOMAIN s.vpoints THEN s
    ELSE BuildPoints(BuildPoint(s, i), i + 1)

\* ----------------------------------- SolverSystem.build_expression: links
\* on_links[0] for two joints of the solver; a joint that was never moved has
\* c[0] = c[1], so which shared link comes first does not show in the length.
FirstShared(vp1, vp2) ==
    LET shared == Range(vp1.links) \cap Range(vp2.links)
    IN  IF shared = {} THEN "" ELSE CHOOSE name \in shared : TRUE

\* self.sliders[n] of the C++ map.
SliderOf(s, n) == IF n \in DOMAIN s.sliders THEN s.sliders[n] ELSE 0

\* The Point a link constraint takes for joint n on the link `name`: the
\* slider base when the joint has no known coordinates and `name` is its slot.
LinkEnd(s, n, name) ==
    IF JointKey(n) \notin DOMAIN s.data_dict /\ is_slot_link(s.vpoints[n], name)
    THEN Ref("slider_bases", SliderOf(s, n))
    ELSE Ref("points", n)

\* The same for the third and later joints of a link, which are looked at
\* only without known coordinates.
LinkEndNoData(s, n, name) ==
    IF is_slot_link(s.vpoints[n], name)
    THEN Ref("slider_bases", SliderOf(s, n))
    ELSE Ref("points", n)

\* One length: taken from data_dict or measured and cached there, stored in a
\* new cell of data_values that the distance constraint refers to.
AddLength(s, n1, n2, p1, p2) ==
    LET pair == PairKey(n1, n2)
        vp1  == s.vpoints[n1]
        vp2  == s.vpoints[n2]
        x    == IF pair \in DOMAIN s.data_dict THEN s.data_dict[pair]
                ELSE distance(vp1, vp2, FirstShared(vp1, vp2))
        t    == [s EXCEPT
                    !.data_dict = IF pair \in DOMAIN @ THEN @ ELSE @ @@ (pair :> x),
                    !.data_values = Append(@, Thousandths(x)),
                    !.data_owner = Append(@, [key |-> pair, part |-> 0])]
    IN  [t EXCEPT !.cons_list =
            Append(@, P2PDistanceConstraint(p1, p2,
                                            Ref("data_values", Len(t.data_values))))]

\* `for c in vlink.points[2:]`, each such joint tied to a and to b.
RECURSIVE BuildLinkRest(_, _, _, _, _)
BuildLinkRest(s, cs, a, b, name) ==
    IF cs = <<>> THEN s
    ELSE LET c == Head(cs)
         IN  IF JointKey(c) \in DOMAIN s.data_dict
             THEN BuildLinkRest(s, Tail(cs), a, b, name)
             ELSE LET one == AddLength(s, c, a, LinkEndNoData(s, c, name),
                                       LinkEnd(s, a, name))
                      two == AddLength(one, c, b, LinkEndNoData(one, c, name),
                                       LinkEnd(one, b, name))
                  IN  BuildLinkRest(two, Tail(cs), a, b, name)

BuildLink(s, vlink) ==
    IF Len(vlink.points) < 2 \/ vlink.name = FRAME THEN s
    ELSE LET a == vlink.points[1]
             b == vlink.points[2]
             head == IF JointKey(a) \notin DOMAIN s.data_dict
                        \/ JointKey(b) \notin DOMAIN s.data_dict
                     THEN AddLength(s, a, b, LinkEnd(s, a, vlink.name),
                                    LinkEnd(s, b, vlink.name))
                     ELSE s
         IN  BuildLinkRest(head, Slice(vlink.points, 2), a, b, vlink.name)

RECURSIVE BuildLinks(_, _)
BuildLinks(s, k) ==
    IF k \notin DOMAIN s.vlinks THEN s
    ELSE BuildLinks(BuildLink(s, s.vlinks[k]), k + 1)

\* --------------------------------- SolverSystem.build_expression: sliders
PushConstant(s, v) == [s EXCEPT !.constants = Append(@, v)]

LastConstant(s) == Ref("constants", Len(s.constants))

PushCons(s, con) == [s EXCEPT !.cons_list = Append(@, con)]

\* The offset constraint between the slider base b and the pin p1.
SliderOffset(s, vp1, b, p1) ==
    IF ~has_offset(vp1) THEN s
    ELSE IF vp1.offset # 0
    THEN LET t == PushConstant(s, Thousandths(vp1.offset))
         IN  PushCons(t, P2PDistanceConstraint(Ref("slider_bases", b), p1,
                                               LastConstant(t)))
    ELSE PushCons(s, PointOnPointConstraint(Ref("slider_bases", b), p1))

\* The friend of slider a on the link `name`: the first joint of the link
\* that is not a itself, -1 when a is alone on it.
LinkFriend(s, a, name) ==
    LET pts == VLinkNamed(s, name).points
    IN  IF pts[1] # a THEN pts[1]
        ELSE IF Len(pts) < 2 THEN -1
        ELSE pts[2]

\* The line from `from` to the friend c and the angle it keeps to the slot.
SlopeToFriend(s, a, c, name, from, slider_slot) ==
    LET vp1 == s.vpoints[a]
        vp2 == s.vpoints[c]
        p2  == LinkEndNoData(s, c, name)
        t   == [s EXCEPT !.slider_lines = Append(@, [p1 |-> from, p2 |-> p2])]
        u   == PushConstant(t, _radians(slope_angle(vp1, vp2, 2, 2) - vp1.angle))
    IN  PushCons(u, InternalAngleConstraint(slider_slot,
                                            Ref("slider_lines", Len(u.slider_lines)),
                                            LastConstant(u)))

\* `for name in vp1.links[1:]` of a P joint.
RECURSIVE PinLinks(_, _, _, _, _)
PinLinks(s, a, names, p1, slider_slot) ==
    IF names = <<>> THEN s
    ELSE LET c == LinkFriend(s, a, Head(names))
         IN  PinLinks(IF c = -1 THEN s
                      ELSE SlopeToFriend(s, a, c, Head(names), p1, slider_slot),
                      a, Tail(names), p1, slider_slot)

BuildSlider(s, a) ==
    LET b   == s.sliders[a]
        vp1 == s.vpoints[a]
        p1  == Ref("points", a)
        s1  == [s EXCEPT !.slider_lines =
                    Append(@, [p1 |-> Ref("slider_bases", b),
                               p2 |-> Ref("slider_slots", b)])]
        slider_slot == Ref("slider_lines", Len(s1.slider_lines))
        c   == LinkFriend(s, a, vp1.links[1])
        s2  == IF grounded(vp1)
               THEN LET t == PushConstant(s1, _radians(vp1.angle))
                        u == PushCons(t, LineInternalAngleConstraint(slider_slot,
                                                                     LastConstant(t)))
                        v == PushCons(u, PointOnLineConstraint(p1, slider_slot))
                    IN  SliderOffset(v, vp1, b, p1)
               ELSE IF c = -1 THEN s1
               ELSE LET t == SlopeToFriend(s1, a, c, vp1.links[1],
                                           Ref("slider_bases", b), slider_slot)
                        u == PushCons(t, PointOnLineConstraint(p1, slider_slot))
                    IN  SliderOffset(u, vp1, b, p1)
    IN  IF vp1.type # "P" THEN s2
        ELSE PinLinks(s2, a, Slice(vp1.links, 1), p1, slider_slot)

\* `for slider in self.sliders`: the map is walked by ascending joint index.
RECURSIVE BuildSliders(_, _)
BuildSliders(s, todo) ==
    IF todo = <<>> THEN s
    ELSE BuildSliders(BuildSlider(s, Head(todo)), Tail(todo))

\* ---------------------------------- SolverSystem.build_expression: angles
\* `if b == d: continue` of the loop that builds the driver constraints.
BuildSkips(b, d) == b = d

RECURSIVE BuildAngles(_, _)
BuildAngles(s, k) ==
    IF k \notin DOMAIN s.inputs THEN s
    ELSE LET b == s.inputs[k][1][1]
             d == s.inputs[k][1][2]
         IN  IF BuildSkips(b, d) THEN BuildAngles(s, k + 1)
             ELSE LET t == [s EXCEPT
                              !.handles = Append(@, [p1 |-> Ref("points", b),
                                                     p2 |-> Ref("points", d)]),
                              !.inputs_angle = Append(@, _radians(s.inputs[k][2])),
                              !.angle_owner = Append(@, s.inputs[k][1])]
                  IN  BuildAngles(
                          PushCons(t, LineInternalAngleConstraint(
                                          Ref("handles", Len(t.handles)),
                                          Ref("inputs_angle", Len(t.inputs_angle)))),
                          k + 1)

\* SolverSystem(vpoints_, inputs, data_dict): inputs are the items
\* <<(b, d), angle>> of the caller's dict in its order, data the items
\* <<key, value>> of the caller's data_dict.
SolverSystem(vpoints_arg, inputs_arg, data_arg) ==
    LET new == [vpoints      |-> vpoints_arg,
                vlinks       |-> get_vlinks(vpoints_arg),
                inputs       |-> inputs_arg,
                data_dict    |-> _sort_pairs(data_arg),
                constants    |-> <<>>, params |-> <<>>, data_values |-> <<>>,
                inputs_angle |-> <<>>,
                points |-> <<>>, sliders |-> <<>>,
                slider_bases |-> <<>>, slider_slots |-> <<>>,
                slider_lines |-> <<>>, handles |-> <<>>, cons_list |-> <<>>,
                data_owner |-> <<>>, angle_owner |-> <<>>]
        pts == BuildPoints(new, 0)
        lks == BuildLinks(pts, 1)
        sls == BuildSliders(lks, SetIter(DOMAIN lks.sliders))
    IN  BuildAngles(sls, 1)

\* --------------------------------------------- SolverSystem: the setters
show_inputs(s) == {s.inputs[k][1] : k \in DOMAIN s.inputs}

show_data(s) == DOMAIN s.data_dict

\* A check that lets every dict through.
AnyInputsAccepted(shown, given) == TRUE

AnyDataAccepted(shown, given) == TRUE

\* `self.show_inputs() >= set(inputs)`
InputsAccepted(shown, given) == given \subseteq shown

\* `self.show_data() >= set(data_dict)`, the argument's pairs sorted before.
DataAccepted(shown, given) == given \subseteq shown

\* dict.update on the ordered dict `d` of items <<key, value>>: a known key
\* keeps its place, a new one goes to the end.
RECURSIVE update(_, _)
update(d, items) ==
    IF items = <<>> THEN d
    ELSE LET hits == {k \in DOMAIN d : d[k][1] = Head(items)[1]}
         IN  update(IF hits = {} THEN Append(d, Head(items))
                    ELSE [d EXCEPT ![CHOOSE k \in hits : TRUE] = Head(items)],
                    Tail(items))

\* self.data_dict.update(data_dict)
UpdateData(dd, new) ==
    [key \in (DOMAIN dd) \cup (DOMAIN new) |->
        IF key \in DOMAIN new THEN new[key] ELSE dd[key]]

\* A std::list iterator taken at begin() that writes `writes` one cell after
\* the other.  Past the last cell it stands on end(): writing through it or
\* advancing it is undefined, and the build decides what follows: with
\* `circular` the write misses the pool and the iterator comes back to the
\* first cell, without it every later write misses the pool as well.
RECURSIVE Walk(_, _, _, _, _)
Walk(cells, wild, at, writes, circular) ==
    IF writes = <<>> THEN [cells |-> cells, wild |-> wild]
    ELSE IF at \in DOMAIN cells
    THEN Walk([cells EXCEPT ![at] = Head(writes)], wild, at + 1, Tail(writes),
              circular)
    ELSE IF circular /\ at = Len(cells) + 1
    THEN Walk(cells, TRUE, 1, Tail(writes), circular)
    ELSE Walk(cells, TRUE, at + 1, Tail(writes), circular)

\* A loop that takes a cell for every item of self.inputs.
NeverSkips(b, d) == FALSE

\* `if b == d: continue` of the loop of set_inputs.
SetInputsSkips(b, d) == b = d

\* What the loop of set_inputs writes, in the order of self.inputs.
RECURSIVE AngleWrites(_, _)
AngleWrites(ins, k) ==
    IF k \notin DOMAIN ins THEN <<>>
    ELSE (IF SetInputsSkips(ins[k][1][1], ins[k][1][2]) THEN <<>>
          ELSE <<_radians(ins[k][2])>>)
         \o AngleWrites(ins, k + 1)

\* What the first loop of set_data writes for joint i.
PointWrites(s, dd, i) ==
    LET coord == <<Thousandths(dd[JointKey(i)][1]), Thousandths(dd[JointKey(i)][2])>>
    IN  (IF grounded(s.vpoints[i]) /\ JointKey(i) \in DOMAIN dd THEN coord ELSE <<>>)
        \o (IF JointKey(i) \in DOMAIN dd THEN coord ELSE <<>>)

RECURSIVE PointsWrites(_, _, _)
PointsWrites(s, dd, i) ==
    IF i \notin DOMAIN s.vpoints THEN <<>>
    ELSE PointWrites(s, dd, i) \o PointsWrites(s, dd, i + 1)

\* What the second loop of set_data writes for one link.
RECURSIVE LinkRestWrites(_, _, _, _)
LinkRestWrites(dd, cs, a, b) ==
    IF cs = <<>> THEN <<>>
    ELSE (IF JointKey(Head(cs)) \in DOMAIN dd THEN <<>>
          ELSE <<Thousandths(dd[PairKey(Head(cs), a)]),
                 Thousandths(dd[PairKey(Head(cs), b)])>>)
         \o LinkRestWrites(dd, Tail(cs), a, b)

LinkWrites(dd, vlink) ==
    IF Len(vlink.points) < 2 \/ vlink.name = FRAME THEN <<>>
    ELSE LET a == vlink.points[1]
             b == vlink.points[2]
         IN  (IF JointKey(a) \notin DOMAIN dd \/ JointKey(b) \notin DOMAIN dd
              THEN <<Thousandths(dd[PairKey(a, b)])>> ELSE <<>>)
             \o LinkRestWrites(dd, Slice(vlink.points, 2), a, b)

RECURSIVE LinksWrites(_, _, _)
LinksWrites(s, dd, k) ==
    IF k \notin DOMAIN s.vlinks THEN <<>>
    ELSE LinkWrites(dd, s.vlinks[k]) \o LinksWrites(s, dd, k + 1)

\* ------------------------------------------------- SolverSystem.solve
\* The double a pointer of a Point refers to.
Deref(s, ref) == s[ref[1]][ref[2]]

\* What the minimizer leaves in params: the cells as they were, or every cell
\* moved; it reports Success or a failure either way.
Minimize(params, moved) ==
    [k \in DOMAIN params |-> IF moved THEN params[k] + 1000 ELSE params[k]]

\* `self.sliders[i]` of the C++ map inserts i with the value 0 when the
\* build registered no slider for i.
SlidersAfterSolve(s) ==
    LET unregistered == {i \in DOMAIN s.vpoints :
                            s.vpoints[i].type # "R" /\ i \notin DOMAIN s.sliders}
    IN  s.sliders @@ [i \in unregistered |-> 0]

\* A joint whose entry solve reads past the end of slider_bases: nothing of
\* the solver is there.
ReadsPastBases(s, i) ==
    s.vpoints[i].type # "R" /\ SliderOf(s, i) + 1 \notin DOMAIN s.slider_bases

\* The entry of joint i in the list solve returns; `stray` is what a read
\* past the end of slider_bases comes back with.
SolvedEntry(s, i, stray) ==
    LET pin == <<Deref(s, s.points[i + 1].x), Deref(s, s.points[i + 1].y)>>
    IN  IF s.vpoints[i].type = "R" THEN pin
        ELSE IF ReadsPastBases(s, i) THEN <<stray, pin>>
        ELSE LET base == s.slider_bases[SliderOf(s, i) + 1]
             IN  <<<<Deref(s, base.x), Deref(s, base.y)>>, pin>>

\* The list solve builds on Success.
solved_points(s, stray) ==
    [i \in DOMAIN s.vpoints |-> SolvedEntry(s, i, stray)]

\* ------------------------------------------ SolverSystem.same_points
\* same_points(vpoints_) from index i on.  `self.vpoints[i]` past the end of
\* the solver's list raises IndexError inside a function that returns a C
\* bint: the build decides whether the caller sees the exception
\* (`propagates`) or a false result with the exception dropped.
RECURSIVE SamePointsFrom(_, _, _, _)
SamePointsFrom(s, vs, i, propagates) ==
    IF i \notin DOMAIN vs THEN [result |-> TRUE, raised |-> FALSE]
    ELSE IF i \notin DOMAIN s.vpoints THEN [result |-> FALSE, raised |-> propagates]
    ELSE IF vs[i].links # s.vpoints[i].links THEN [result |-> FALSE, raised |-> FALSE]
    ELSE SamePointsFrom(s, vs, i + 1, propagates)

same_points(s, vs, propagates) == SamePointsFrom(s, vs, 0, propagates)

\* ------------------------------------------------------------------ state
VARIABLES
    vpoints_,      \* t_config: the joint list argument
    inputs,        \* t_config: the input pairs argument
    status,        \* t_config: the caller's status mapping, updated in place
    vpoints,       \* t_config: the working copy of the joints (after promotion)
    vlinks,        \* t_config: link name -> set of joint indices
    pos,           \* t_config: seed position of every joint
    exprs,         \* t_config: the stack being built
    link_symbol,   \* t_config: next length index
    angle_symbol,  \* t_config: next angle index
    node,          \* t_config: joint index the sweep looks at
    skip_times,    \* t_config: the sweep's no-progress counter
    around,        \* t_config: len(status) when the sweep starts
    pc,            \* t_config: "call", "sweep", "done" (returned), "error" (raised)
    call,          \* which call on these arguments this is (1 or 2)
    first,         \* the stack the first call returned
    idle,          \* joint visits of the sweep since a joint was last marked solved
    iters,         \* iterations of the sweep's while loop so far
    solver,        \* the SolverSystem: its fields, pools and constraints
    ctor,          \* the keys the constructor was given: inputs, data
    recent,        \* input pair -> the angle the caller supplied last
    last,          \* the last call on the solver and the solver before it
    calls,         \* calls made on the solver so far
    joint,         \* VPoint: the joint the methods are called on
    mate,          \* VPoint: a second joint, handed to distance and slope_angle
    twin,          \* VPoint: the copy taken of joint, None before
    probe,         \* the last call that returned a value: what it read and gave
    steps,         \* VPoint: method calls made so far
    text,          \* VPoint: the link text joint was constructed from
    turned,        \* VPoint: the angle last handed to joint.rotate, None before
    arrays         \* VPoint: which ndarray object the c of joint and of twin is

tvars == <<vpoints_, inputs, status, vpoints, vlinks, pos, exprs, link_symbol,
           angle_symbol, node, skip_times, around, pc, call, first, idle, iters>>

svars == <<solver, ctor, recent, last, calls>>

pvars == <<joint, mate, twin, probe, steps, text, turned, arrays>>

vars == <<tvars, svars, pvars>>

\* ------------------------------------------------- the mechanisms explored
RJoints ==
    { VPointNew(<<FRAME, "L1">>, "R", 0, 0, 0),
      VPointNew(<<FRAME, "L2">>, "R", 0, 3, 0),
      VPointNew(<<"L1", "L2">>, "R", 0, 0, 4),
      VPointNew(<<"L2">>, "R", 0, 3, 4),
      VPointNew(<<>>, "R", 0, 0, 4) }

SliderJoints ==
    { VPointNew(<<FRAME>>, "P", 0, 3, 0),
      VPointNew(<<FRAME, "L2">>, "P", 0, 3, 4),
      VPointNew(<<FRAME, "L2">>, "RP", 45, 3, 4),
      VPointNew(<<"L1", "L2">>, "RP", 135, 3, 4),
      set_offset(VPointNew(<<FRAME, "L2">>, "RP", 45, 3, 0), 2),
      VPointNew(<<"L1", FRAME>>, "P", 0, 0, 4) }

\* Joint lists of up to MaxJoints joints; a slider, if any, comes last.
JointLists ==
    UNION { { f \in [0 .. n - 1 -> RJoints \cup SliderJoints] :
                \A i \in 0 .. n - 2 : f[i] \in RJoints } : n \in 0 .. MaxJoints }

\* Input lists of up to MaxInputs pairs (base, node) of two joints, each pair
\* driving the base of the pair before it.
InputLists(n) ==
    LET Pairs == {<<b, d>> : b \in 0 .. n - 1, d \in 0 .. n - 1}
        Good  == {p \in Pairs : p[1] # p[2]}
    IN  UNION { { s \in [1 .. k -> Good] :
                    \A i \in 1 .. k - 1 : s[i + 1][2] = s[i][1] } : k \in 0 .. MaxInputs }

\* Status mappings an earlier call on n to n + MaxLeftover joints leaves.
Leftovers(n) ==
    UNION { { st \in [0 .. n + e - 1 -> BOOLEAN] : \A k \in 0 .. n - 1 : st[k] }
            : e \in 0 .. MaxLeftover }

\* No SolverSystem is looked at while t_config runs.
SolverIdle ==
    /\ solver = <<>> /\ ctor = <<>> /\ recent = <<>> /\ last = <<>>
    /\ calls = 0

\* No VPoint is looked at on its own meanwhile.
VPointIdle ==
    /\ joint = <<>> /\ mate = <<>> /\ twin = <<>>
    /\ probe = [op |-> "none"] /\ steps = 0
    /\ text = <<>> /\ turned = <<>> /\ arrays = <<>>

TInit ==
    /\ vpoints_ \in JointLists
    /\ inputs \in InputLists(Cardinality(DOMAIN vpoints_))
    /\ status = <<>>
    /\ vpoints = <<>> /\ vlinks = <<>> /\ pos = <<>> /\ exprs = <<>>
    /\ link_symbol = 0 /\ angle_symbol = 0
    /\ node = 0 /\ skip_times = 0 /\ around = 0
    /\ pc = "call" /\ call = 1 /\ first = <<>> /\ idle = 0 /\ iters = 0
    /\ SolverIdle
    /\ VPointIdle

\* ------------------------------------------------------- t_config: actions
Cur == [exprs |-> exprs, status |-> status,
        link_symbol |-> link_symbol, angle_symbol |-> angle_symbol]

Apply(t) ==
    /\ exprs' = t.exprs
    /\ status' = t.status
    /\ link_symbol' = t.link_symbol
    /\ angle_symbol' = t.angle_symbol

input_targets == {inputs[i][2] : i \in DOMAIN inputs}

\* `if not vpoints_` / `if not inputs`: an empty stack, nothing else touched.
TConfigEarlyReturn ==
    /\ pc = "call"
    /\ vpoints_ = <<>> \/ inputs = <<>>
    /\ pc' = "done"
    /\ UNCHANGED <<vpoints_, inputs, status, vpoints, vlinks, pos, exprs,
                   link_symbol, angle_symbol, node, skip_times, around, call,
                   first, idle, iters, svars, pvars>>

\* Everything from the status initialisation to the start of the sweep.
TConfigEnter ==
    /\ pc = "call"
    /\ vpoints_ # <<>> /\ inputs # <<>>
    /\ LET vl  == MakeVLinks(vpoints_)
           vps == PromoteBases(vpoints_, vl, 0)
           t   == DriverEmission([exprs |-> <<>>,
                                  status |-> StatusInit(vpoints_, status),
                                  link_symbol |-> 0, angle_symbol |-> 0], inputs)
       IN  /\ vpoints' = vps
           /\ vlinks' = vl
           /\ pos' = Positions(vps)
           /\ Apply(t)
           /\ around' = Cardinality(DOMAIN t.status)
    /\ node' = 0 /\ skip_times' = 0 /\ idle' = 0 /\ iters' = 0
    /\ pc' = "sweep"
    /\ UNCHANGED <<vpoints_, inputs, call, first, svars, pvars>>

\* What no iteration of the sweep changes; every iteration counts itself.
Frame ==
    /\ iters' = iters + 1
    /\ UNCHANGED <<vpoints_, inputs, vpoints, vlinks, pos, around, call, first,
                   svars, pvars>>

\* `while not _is_all_lock(status)` fails: return exprs.
SweepAllLock ==
    /\ pc = "sweep"
    /\ _is_all_lock(status)
    /\ pc' = "done"
    /\ Frame
    /\ UNCHANGED <<exprs, status, link_symbol, angle_symbol, node, skip_times, idle>>

\* `if node not in status: node = 0; continue`
SweepWrap ==
    /\ pc = "sweep"
    /\ ~_is_all_lock(status)
    /\ node \notin DOMAIN status
    /\ node' = 0
    /\ Frame
    /\ UNCHANGED <<exprs, status, link_symbol, angle_symbol, skip_times, idle, pc>>

\* `if skip_times >= around: break`
SweepBreak ==
    /\ pc = "sweep"
    /\ ~_is_all_lock(status)
    /\ node \in DOMAIN status
    /\ skip_times >= around
    /\ pc' = "done"
    /\ Frame
    /\ UNCHANGED <<exprs, status, link_symbol, angle_symbol, node, skip_times, idle>>

Visit ==
    /\ pc = "sweep"
    /\ ~_is_all_lock(status)
    /\ node \in DOMAIN status
    /\ skip_times < around

\* `if status[node]: node += 1; skip_times += 1; continue`
VisitSolved ==
    /\ Visit
    /\ status[node]
    /\ node' = node + 1
    /\ skip_times' = SkipInc(skip_times)
    /\ idle' = idle + 1
    /\ Frame
    /\ UNCHANGED <<exprs, status, link_symbol, angle_symbol, pc>>

\* `vpoint = vpoints[node]` for a key of status that is no joint index.
VisitIndexError ==
    /\ Visit
    /\ ~status[node]
    /\ node \notin DOMAIN vpoints
    /\ pc' = "error"
    /\ Frame
    /\ UNCHANGED <<exprs, status, link_symbol, angle_symbol, node, skip_times, idle>>

Unsolved(type) ==
    /\ Visit
    /\ ~status[node]
    /\ node \in DOMAIN vpoints
    /\ vpoints[node].type = type

\* A visit that emits: the production's result, then `node += 1`.
Progress(t, skip) ==
    /\ Apply(t)
    /\ skip_times' = skip
    /\ idle' = 0
    /\ node' = node + 1
    /\ Frame
    /\ UNCHANGED pc

\* A visit that emits nothing: `skip_times += 1`, then `node += 1`.
NoProgress ==
    /\ skip_times' = SkipInc(skip_times)
    /\ idle' = idle + 1
    /\ node' = node + 1
    /\ Frame
    /\ UNCHANGED <<exprs, status, link_symbol, angle_symbol, pc>>

\* skip_times after the input-target PLA: the branch leaves it alone.
SkipAfterInputPLA(skip) == skip

\* skip_times after a PLLP, a PXY or the RP pair.
SkipAfterSolve(skip) == 0

RInputPLA ==
    /\ Unsolved("R")
    /\ node \in input_targets
    /\ status[_get_input_base(node, inputs)]
    /\ Progress(EmitInputPLA(Cur, _get_input_base(node, inputs), node),
                SkipAfterInputPLA(skip_times))

RInputSkip ==
    /\ Unsolved("R")
    /\ node \in input_targets
    /\ ~status[_get_input_base(node, inputs)]
    /\ NoProgress

RPLLP ==
    /\ Unsolved("R")
    /\ node \notin input_targets
    /\ LET fi == _get_reliable_friend(node, vpoints, vlinks, status)
       IN  /\ Len(fi) >= 2
           /\ Progress(EmitPLLP(Cur, pos, fi[1], fi[2], node),
                       SkipAfterSolve(skip_times))

RSkip ==
    /\ Unsolved("R")
    /\ node \notin input_targets
    /\ Len(_get_reliable_friend(node, vpoints, vlinks, status)) < 2
    /\ NoProgress

UnsolvedSlider ==
    /\ Visit
    /\ ~status[node]
    /\ node \in DOMAIN vpoints
    /\ vpoints[node].type \in {"P", "RP"}

\* The generator the slider productions take their pin-side friend from.
PinSide == _get_not_base_friend(node, vpoints, vlinks, status)

\* The generator the RP production takes its base-side friend from.
BaseSide == _get_base_friend(node, vpoints, vlinks, status)

\* next() runs a generator body that executes `raise StopIteration`.
RaisesInGenerator ==
    /\ ~SliderRefused(vpoints[node])
    /\ \/ PinSide.raises
       \/ /\ vpoints[node].type = "RP"
          /\ PinSide.items # <<>>
          /\ BaseSide.raises

\* next() finds its generator exhausted: an ordinary StopIteration.
Exhausted ==
    /\ ~SliderRefused(vpoints[node])
    /\ ~PinSide.raises
    /\ \/ PinSide.items = <<>>
       \/ /\ vpoints[node].type = "RP"
          /\ ~BaseSide.raises
          /\ BaseSide.items = <<>>

\* A slider the production refuses, or one with no friend to use.
SliderSkip ==
    /\ UnsolvedSlider
    /\ SliderRefused(vpoints[node]) \/ Exhausted
    /\ NoProgress

\* `raise StopIteration` inside the generator, built without PEP 479: the
\* exception leaves next() as it is and the production's except clause has it.
SliderRaiseCaught ==
    /\ UnsolvedSlider
    /\ RaisesInGenerator
    /\ NoProgress

\* The same statement built with PEP 479 (generator_stop): next() raises
\* RuntimeError, which nothing in t_config catches.
SliderRaiseRuntimeError ==
    /\ UnsolvedSlider
    /\ RaisesInGenerator
    /\ pc' = "error"
    /\ Frame
    /\ UNCHANGED <<exprs, status, link_symbol, angle_symbol, node, skip_times, idle>>

PPXY ==
    /\ Unsolved("P")
    /\ ~SliderRefused(vpoints[node])
    /\ ~PinSide.raises
    /\ PinSide.items # <<>>
    /\ Progress(EmitPXY(Cur, vpoints, vlinks, PinSide.items[1], node),
                SkipAfterSolve(skip_times))

RPSolve ==
    /\ Unsolved("RP")
    /\ ~SliderRefused(vpoints[node])
    /\ ~PinSide.raises /\ PinSide.items # <<>>
    /\ ~BaseSide.raises /\ BaseSide.items # <<>>
    /\ Progress(EmitRP(Cur, vpoints, pos, PinSide.items[1], BaseSide.items[1], node),
                SkipAfterSolve(skip_times))

\* The caller calls t_config again on the same joints and inputs, handing it
\* a status mapping an earlier call filled.
CallAgain ==
    /\ pc = "done"
    /\ call = 1
    /\ \E st \in Leftovers(Cardinality(DOMAIN vpoints_)) : status' = st
    /\ call' = 2
    /\ first' = exprs
    /\ vpoints' = <<>> /\ vlinks' = <<>> /\ pos' = <<>> /\ exprs' = <<>>
    /\ link_symbol' = 0 /\ angle_symbol' = 0
    /\ node' = 0 /\ skip_times' = 0 /\ around' = 0 /\ idle' = 0 /\ iters' = 0
    /\ pc' = "call"
    /\ UNCHANGED <<vpoints_, inputs, svars, pvars>>

TNext ==
    \/ TConfigEarlyReturn
    \/ TConfigEnter
    \/ SweepAllLock
    \/ SweepWrap
    \/ SweepBreak
    \/ VisitSolved
    \/ VisitIndexError
    \/ RInputPLA
    \/ RInputSkip
    \/ RPLLP
    \/ RSkip
    \/ SliderSkip
    \/ SliderRaiseCaught
    \/ SliderRaiseRuntimeError
    \/ PPXY
    \/ RPSolve
    \/ CallAgain

Spec == TInit /\ [][TNext]_vars

\* ------------------------------------------------ t_config: the claims
\* The call got past its early returns.
Entered == vpoints # <<>>

\* Point symbols of the joints that are solved before any construction.
InitiallySolved ==
    {sym(P_LABEL, n) : n \in {m \in DOMAIN vpoints_ : StatusInit(vpoints_, <<>>)[m]}}

TargetsBefore(k) == {ExprTarget(exprs[j]) : j \in 1 .. k - 1}

\* C1: in the stack, every construction's target joint is marked solved once
\* it is emitted, and every point operand of a construction is initially
\* solved or the target of an earlier construction of the stack.
C1_StackIsSound ==
    Entered =>
        \A k \in DOMAIN exprs :
            /\ status[ExprTarget(exprs[k])[2]]
            /\ ExprOperands(exprs[k]) \subseteq InitiallySolved \cup TargetsBefore(k)

\* Iterations the sweep can need: every visit counts into skip_times or marks
\* a joint solved, and a wrap of node follows at most every visit.
SweepLimit == 2 * (around + 1) * (Cardinality(DOMAIN vpoints_) + 1)

\* The cases an iteration of the sweep distinguishes: one of them holds in
\* every state of the sweep, or the sweep would be stuck there.
SweepCanStep ==
    \/ _is_all_lock(status)
    \/ node \notin DOMAIN status
    \/ skip_times >= around
    \/ status[node]
    \/ node \notin DOMAIN vpoints
    \/ vpoints[node].type = "R"
    \/ /\ vpoints[node].type \in {"P", "RP"}
       /\ \/ SliderRefused(vpoints[node])
          \/ Exhausted
          \/ RaisesInGenerator
          \/ vpoints[node].type = "P" /\ PinSide.items # <<>>
          \/ vpoints[node].type = "RP" /\ PinSide.items # <<>> /\ BaseSide.items # <<>>

C3_SkipCountsIdleVisits ==
    (call = 1 /\ Entered /\ pc \in {"sweep", "done"}) =>
        /\ skip_times = idle
        /\ pc = "done" =>
              _is_all_lock(status) \/ idle >= Cardinality(DOMAIN vpoints_)

\* What status must say about joint n when t_config has returned.
StatusAsClaimed(n) ==
    status[n] <=>
        \/ vpoints_[n].type = "R" /\ FRAME \in Range(vpoints_[n].links)
        \/ vpoints_[n].links = <<>>
        \/ \E k \in DOMAIN exprs : ExprTarget(exprs[k]) = sym(P_LABEL, n)

\* C4: whenever t_config returns for a non-empty joint list,
\* status has an entry for every joint, true exactly for the grounded R
\* joints, the link-less joints and the targets of emitted constructions.
C4_StatusAfterAnyReturn ==
    (pc = "done" /\ vpoints_ # <<>>) =>
        /\ DOMAIN vpoints_ \subseteq DOMAIN status
        /\ \A n \in DOMAIN vpoints_ : StatusAsClaimed(n)

\* C5: a second call on the same joints and inputs returns the stack the
\* first call returned, whatever status mapping it is handed.
C5_SameStackAnyStatus ==
    (call = 2 /\ pc = "done") => exprs = first

\* C6: a call on a joint list and a list of joint-index pairs (status left to
\* its default) never ends in an exception.
C6_NeverRaises ==
    call = 1 => pc # "error"

\* The joints a construction names: its target and its point operands.
ExprJoints(e) == {s[2] : s \in {ExprTarget(e)} \cup ExprOperands(e)}

\* G and the joints outside it are two groups that share no link but the
\* frame, and every input pair lies in one of them.
SplitsMechanism(G) ==
    /\ G # {} /\ G # DOMAIN vpoints_
    /\ \A n \in G, m \in (DOMAIN vpoints_) \ G :
          Range(vpoints_[n].links) \cap Range(vpoints_[m].links) \subseteq {FRAME}
    /\ \A i \in DOMAIN inputs : inputs[i][1] \in G <=> inputs[i][2] \in G

\* C21: when the mechanism splits into two groups that share no link but the
\* frame, with every input pair inside one group, every construction of the
\* stack names joints of one group only.
C21_GroupsAreNotMixed ==
    Entered =>
        \A G \in SUBSET DOMAIN vpoints_ :
            SplitsMechanism(G) =>
                \A k \in DOMAIN exprs :
                    ExprJoints(exprs[k]) \subseteq G \/ ExprJoints(exprs[k]) \cap G = {}

\* The symbols with the given label that the stack allocates, in the order
\* of emission: v1, then v2 of every construction.
Allocated(label) ==
    Concat([k \in DOMAIN exprs |->
               SelectSeq(<<exprs[k].v1, exprs[k].v2>>, LAMBDA v : v[1] = label)])

\* C22: read in emission order the length symbols of the stack are L0, L1,
\* L2, ... and the angle symbols a0, a1, ..., without gap or repetition, and
\* the two counters stand at the numbers of symbols handed out.
C22_SymbolsCountUp ==
    Entered =>
        /\ \A i \in DOMAIN Allocated(L_LABEL) : Allocated(L_LABEL)[i][2] = i - 1
        /\ \A i \in DOMAIN Allocated(A_LABEL) : Allocated(A_LABEL)[i][2] = i - 1
        /\ link_symbol = Len(Allocated(L_LABEL))
        /\ angle_symbol = Len(Allocated(A_LABEL))

\* A returned stack that holds a driver PLA, the pair of an RP joint and a
\* construction emitted after that pair.
C22_Witness ==
    /\ pc = "done" /\ Entered
    /\ \E i, k \in DOMAIN exprs :
          /\ exprs[i].func = "PLA"
          /\ exprs[k].func = "PLPP"
          /\ k < Len(exprs)

\* cross((b - a), (c - b)): positive for a counter-clockwise turn a, b, c,
\* negative for a clockwise one, zero on a line.
Cross3(a, b, c) == (b[1] - a[1]) * (c[2] - b[2]) - (b[2] - a[2]) * (c[1] - b[1])

\* The two friends the R production is about to take, and the construction
\* it has just appended.
Friends == _get_reliable_friend(node, vpoints, vlinks, status)

Emitted == exprs'[Len(exprs')]

Swapped ==
    /\ Emitted.c1 = sym(P_LABEL, Friends[2])
    /\ Emitted.c2 = sym(P_LABEL, Friends[1])

\* C23 as stated: the R production swaps its two friends exactly when
\* (pos[fa], pos[n], pos[fb]) is not counter-clockwise, and the PLLP it
\* emits has (pos[c1], pos[n], pos[c2]) counter-clockwise or collinear.
C23_EmittedCounterClockwise ==
    [][RPLLP =>
        /\ Friends[1] # Friends[2] =>
              (Swapped <=> ~(Cross3(pos[Friends[1]], pos[node], pos[Friends[2]]) > 0))
        /\ Cross3(pos[Emitted.c1[2]], pos[node], pos[Emitted.c2[2]]) >= 0]_vars

\* C23: the R production swaps its two friends exactly when
\* (pos[fa], pos[n], pos[fb]) is counter-clockwise, and the PLLP it emits
\* has (pos[c1], pos[n], pos[c2]) clockwise or collinear.
C23_EmittedClockwise ==
    [][RPLLP =>
        /\ Friends[1] # Friends[2] =>
              (Swapped <=> Cross3(pos[Friends[1]], pos[node], pos[Friends[2]]) > 0)
        /\ Cross3(pos[Emitted.c1[2]], pos[node], pos[Emitted.c2[2]]) <= 0]_vars

\* A returned stack with a PLLP of the R production whose pivots and target
\* make a strict clockwise turn.
C23_Witness ==
    /\ pc = "done" /\ Entered
    /\ \E k \in DOMAIN exprs :
          /\ exprs[k].func = "PLLP"
          /\ exprs[k].c3[1] = P_LABEL
          /\ Cross3(pos[exprs[k].c1[2]], pos[exprs[k].c3[2]], pos[exprs[k].c2[2]]) < 0

\* C24: a P or RP joint of the mechanism handed in that is not grounded, is
\* pin-grounded or has an active offset is no construction's target and its
\* status entry is false.
C24_RefusedSlidersStayUnsolved ==
    Entered =>
        \A n \in DOMAIN vpoints_ :
            (vpoints_[n].type \in {"P", "RP"} /\ SliderRefused(vpoints_[n])) =>
                /\ ~status[n]
                /\ \A k \in DOMAIN exprs : ExprTarget(exprs[k]) # sym(P_LABEL, n)

\* No production applies to joint n any more: it is solved, or an input
\* target whose base is unsolved, or a plain R joint with fewer than two
\* solved joints on its links.
NothingLeftFor(n) ==
    \/ status[n]
    \/ vpoints[n].type # "R"
    \/ n \in input_targets /\ ~status[_get_input_base(n, inputs)]
    \/ /\ n \notin input_targets
       /\ Cardinality({m \in DOMAIN vpoints :
                          /\ m # n /\ status[m]
                          /\ Range(vpoints[m].links) \cap Range(vpoints[n].links) # {}}) < 2

\* C28: when t_config returns, no production for an R joint applies any
\* more.
C28_ReturnsAtFixedPoint ==
    (pc = "done" /\ Entered /\ call = 1) =>
        \A n \in DOMAIN vpoints : NothingLeftFor(n)

\* C29: every PLLP the R production emitted names two different pivot
\* joints, both different from its target.
C29_PivotsAreDistinct ==
    Entered =>
        \A k \in DOMAIN exprs :
            (exprs[k].func = "PLLP" /\ exprs[k].c3[1] = P_LABEL) =>
                /\ exprs[k].c1 # exprs[k].c2
                /\ exprs[k].c1 # exprs[k].c3
                /\ exprs[k].c2 # exprs[k].c3

\* ----------------------------------------------- SolverSystem: the system
\* No t_config call is under way while the solver is looked at.
TIdle ==
    /\ vpoints_ = <<>> /\ inputs = <<>> /\ status = <<>>
    /\ vpoints = <<>> /\ vlinks = <<>> /\ pos = <<>> /\ exprs = <<>>
    /\ link_symbol = 0 /\ angle_symbol = 0
    /\ node = 0 /\ skip_times = 0 /\ around = 0
    /\ pc = "idle" /\ call = 1 /\ first = <<>> /\ idle = 0 /\ iters = 0

\* The joints the solver is built from.
GroundPin   == VPointNew(<<"ground", "L1">>, "R", 0, 0, 0)
FreePin     == VPointNew(<<"L1">>, "R", 0, 0, 4)
CouplerPin  == VPointNew(<<"L1", "L2">>, "R", 0, 3, 4)
LoosePin    == VPointNew(<<>>, "R", 0, 3, 0)
GroundSlot  == VPointNew(<<"ground", "L1">>, "RP", 45, 3, 0)
OffsetSlot  == set_offset(VPointNew(<<"ground", "L1">>, "RP", 45, 3, 0), 2)
LinkSlot    == VPointNew(<<"L1", "L2">>, "RP", 0, 3, 4)
GroundBlock == VPointNew(<<"ground", "L1">>, "P", 0, 3, 0)
LooseSlot   == VPointNew(<<>>, "RP", 0, 3, 4)
LoneSlot    == set_offset(VPointNew(<<"L2", "L1">>, "RP", 0, 3, 4), 2)
BackSlot    == set_offset(VPointNew(<<"ground", "L1">>, "RP", 45, 3, 0), -2)

SolverJointLists ==
    LET Firsts  == {GroundPin, FreePin, LoosePin}
        Seconds == {FreePin, GroundPin, GroundSlot}
        Thirds  == {CouplerPin, GroundSlot, OffsetSlot, LinkSlot, GroundBlock,
                    LooseSlot, LoneSlot, BackSlot}
        At(n)   == IF n = 0 THEN Firsts ELSE IF n = 1 THEN Seconds ELSE Thirds
    IN  UNION {{vps \in [0 .. len - 1 -> Firsts \cup Seconds \cup Thirds] :
                    \A n \in 0 .. len - 1 : vps[n] \in At(n)} :
               len \in 2 .. MaxSolverJoints}

\* The inputs dict of the constructor: its items in order.
DriverDicts ==
    { <<>>,
      << <<<<0, 1>>, 45>> >>,
      << <<<<0, 0>>, 45>>, <<<<0, 1>>, 135>> >>,
      << <<<<0, 1>>, 45>>, <<<<1, 0>>, 135>> >> }

\* The data_dict of the constructor: its items in order, pairs as tuples.
DataDicts ==
    { <<>>,
      << <<<<0>>, <<1, 2>>>> >>,
      << <<<<1>>, <<1, 2>>>> >>,
      << <<<<0>>, <<1, 2>>>>, <<<<1>>, <<2, 1>>>> >>,
      << <<<<0, 1>>, 5>> >>,
      << <<<<1, 0>>, 5>>, <<<<0>>, <<1, 2>>>> >>,
      << <<<<2>>, <<1, 2>>>> >> }

\* The dicts handed to set_inputs.
InputsArgs ==
    LET One == {<< <<key, v>> >> :
                    key \in {<<0, 0>>, <<0, 1>>, <<1, 0>>, <<0, 2>>}, v \in {0, 90}}
        Keys == {<<0, 1>>, <<1, 0>>, <<0, 2>>}
        Two == {<< <<p[1], 90>>, <<p[2], 0>> >> :
                    p \in {q \in Keys \X Keys : q[1] # q[2]}}
    IN  {arg \in One \cup Two : Len(arg) <= MaxArgument}

\* The dicts handed to set_data.
DataArgs ==
    LET Coord(k) == <<k, <<7, 8>>>>
        Length(k) == <<k, 9>>
        One == {<<Coord(<<0>>)>>, <<Coord(<<1>>)>>, <<Coord(<<2>>)>>,
                <<Length(<<0, 1>>)>>, <<Length(<<1, 0>>)>>, <<Length(<<1, 2>>)>>}
        Two == {<<Coord(<<0>>), Length(<<0, 1>>)>>,
                <<Length(<<0, 1>>), Coord(<<0>>)>>,
                <<Coord(<<1>>), Length(<<0, 2>>)>>}
    IN  {arg \in One \cup Two : Len(arg) <= MaxArgument}

ArgKeys(items) == {items[n][1] : n \in DOMAIN items}

\* The value the caller supplied last for every input pair.
Supplied(old, items) ==
    [key \in DOMAIN old |->
        LET hits == {n \in DOMAIN items : items[n][1] = key}
        IN  IF hits = {} THEN old[key]
            ELSE items[CHOOSE n \in hits : \A m \in hits : m <= n][2]]

SolverInit ==
    /\ TIdle
    /\ VPointIdle
    /\ \E vps \in SolverJointLists, ins \in DriverDicts, data \in DataDicts :
          /\ solver = SolverSystem(vps, ins, data)
          /\ ctor = [inputs |-> ArgKeys(ins), data |-> DOMAIN _sort_pairs(data),
                     built |-> SolverSystem(vps, ins, data)]
          /\ recent = [key \in ArgKeys(ins) |->
                          ins[CHOOSE n \in DOMAIN ins : ins[n][1] = key][2]]
    /\ last = [op |-> "build", ok |-> TRUE, named |-> {}, wild |-> FALSE,
               before |-> <<>>]
    /\ calls = 0

\* A call that raises ValueError: nothing is touched.
Rejected(op, named) ==
    /\ solver' = solver
    /\ recent' = recent
    /\ last' = [op |-> op, ok |-> FALSE, named |-> named, wild |-> FALSE,
                before |-> solver]

\* set_inputs(None)
SetInputsNone ==
    /\ calls < MaxCalls
    /\ calls' = calls + 1
    /\ Rejected("set_inputs", {})
    /\ UNCHANGED <<tvars, ctor, pvars>>

\* set_inputs(arg)
SetInputs ==
    /\ calls < MaxCalls
    /\ calls' = calls + 1
    /\ \E arg \in InputsArgs :
          IF ~InputsAccepted(show_inputs(solver), ArgKeys(arg))
          THEN Rejected("set_inputs", ArgKeys(arg))
          ELSE \E circular \in BOOLEAN :
                 LET ins == update(solver.inputs, arg)
                     w   == Walk(solver.inputs_angle, FALSE, 1, AngleWrites(ins, 1),
                                 circular)
                 IN  /\ solver' = [solver EXCEPT !.inputs = ins,
                                                 !.inputs_angle = w.cells]
                     /\ recent' = Supplied(recent, arg)
                     /\ last' = [op |-> "set_inputs", ok |-> TRUE,
                                 named |-> ArgKeys(arg), wild |-> w.wild,
                                 before |-> solver]
    /\ UNCHANGED <<tvars, ctor, pvars>>

\* set_data(None)
SetDataNone ==
    /\ calls < MaxCalls
    /\ calls' = calls + 1
    /\ Rejected("set_data", {})
    /\ UNCHANGED <<tvars, ctor, pvars>>

\* set_data(arg)
SetData ==
    /\ calls < MaxCalls
    /\ calls' = calls + 1
    /\ \E arg \in DataArgs :
          LET new == _sort_pairs(arg)
          IN  IF ~DataAccepted(show_data(solver), DOMAIN new)
              THEN Rejected("set_data", ArgKeys(arg))
              ELSE \E circular \in BOOLEAN :
                     LET dd == UpdateData(solver.data_dict, new)
                         w  == Walk(solver.data_values, FALSE, 1,
                                    PointsWrites(solver, dd, 0)
                                        \o LinksWrites(solver, dd, 1),
                                    circular)
                     IN  /\ solver' = [solver EXCEPT !.data_dict = dd,
                                                     !.data_values = w.cells]
                         /\ recent' = recent
                         /\ last' = [op |-> "set_data", ok |-> TRUE,
                                     named |-> ArgKeys(arg), wild |-> w.wild,
                                     before |-> solver]
    /\ UNCHANGED <<tvars, ctor, pvars>>

\* What a read past the end of slider_bases may come back with.
Strays == {<<0, 0>>, <<7000, 7000>>}

\* solve(): the minimizer runs on params and the constraints, then the
\* entries are read on Success and ValueError is raised otherwise.
Solve ==
    /\ calls < MaxCalls
    /\ calls' = calls + 1
    /\ \E flag \in {"Success", "Failed"}, moved \in BOOLEAN, stray \in Strays :
          LET min == [solver EXCEPT !.params = Minimize(@, moved)]
          IN  /\ IF flag = "Success"
                 THEN /\ solver' = [min EXCEPT !.sliders = SlidersAfterSolve(min)]
                      /\ probe' = [op |-> "solve", flag |-> flag, ok |-> TRUE,
                                   result |-> solved_points(min, stray),
                                   wild |-> \E i \in DOMAIN min.vpoints :
                                               ReadsPastBases(min, i)]
                 ELSE /\ solver' = min
                      /\ probe' = [op |-> "solve", flag |-> flag, ok |-> FALSE,
                                   result |-> <<>>, wild |-> FALSE]
              /\ last' = [op |-> "solve", ok |-> flag = "Success", named |-> {},
                          wild |-> FALSE, before |-> solver]
    /\ recent' = recent
    /\ UNCHANGED <<tvars, ctor, joint, mate, twin, steps, text, turned, arrays>>

\* The joint lists handed to same_points of a solver built from vps: the
\* list itself, the joints moved, the list without its last joint, with one
\* joint more, and with another joint in the first place.
SamePointsArgs(vps) ==
    LET n == Cardinality(DOMAIN vps)
    IN  { vps,
          [i \in DOMAIN vps |-> VPointNew(vps[i].links, vps[i].type, vps[i].angle,
                                          vps[i].x + 1, vps[i].y + 1)],
          [i \in 0 .. n - 2 |-> vps[i]],
          <<>>,
          [i \in 0 .. n |-> IF i < n THEN vps[i] ELSE FreePin],
          [i \in DOMAIN vps |-> IF i = 0 THEN CouplerPin ELSE vps[i]] }

\* same_points(vs)
SamePoints ==
    /\ calls < MaxCalls
    /\ calls' = calls + 1
    /\ \E vs \in SamePointsArgs(solver.vpoints), propagates \in BOOLEAN :
          LET r == same_points(solver, vs, propagates)
          IN  /\ probe' = [op |-> "same_points", arg |-> vs,
                           result |-> r.result, raised |-> r.raised]
              /\ last' = [op |-> "same_points", ok |-> ~r.raised, named |-> {},
                          wild |-> FALSE, before |-> solver]
    /\ UNCHANGED <<tvars, solver, ctor, recent, joint, mate, twin, steps, text, turned, arrays>>

SolverNext ==
    \/ SamePoints
    \/ SetInputsNone
    \/ SetInputs
    \/ SetDataNone
    \/ SetData
    \/ Solve

SolverSpec == SolverInit /\ [][SolverNext]_vars

\* ---------------------------------------------- SolverSystem: the claims
\* What the data_values cell k was created for at build time, as data_dict
\* has it now.
CellOwed(k) ==
    LET o == solver.data_owner[k]
    IN  IF o.part = 0 THEN Thousandths(solver.data_dict[o.key])
        ELSE Thousandths(solver.data_dict[o.key][o.part])

\* C7: after a successful set_data every cell of data_values holds the
\* current data_dict value of the key it was built for, and no write of the
\* call went outside the pool.
C7_SetDataRebindsItsCells ==
    (last.op = "set_data" /\ last.ok) =>
        /\ ~last.wild
        /\ Len(solver.data_values) = Len(solver.data_owner)
        /\ \A k \in DOMAIN solver.data_values : solver.data_values[k] = CellOwed(k)

\* C8: the angle cell built for every input pair (b, d), b # d, holds
\* radians of the value supplied last for that pair (the construction value
\* if none was), whatever calls were made.
C8_AngleCellsFollowInputs ==
    /\ Len(solver.inputs_angle) = Len(solver.angle_owner)
    /\ \A k \in DOMAIN solver.angle_owner :
          /\ solver.angle_owner[k][1] # solver.angle_owner[k][2]
          /\ solver.inputs_angle[k] = _radians(recent[solver.angle_owner[k]])

\* C8 witness: a second successful set_inputs that names one driver and not
\* another one, which an earlier call had set.
C8_Witness ==
    /\ calls = 2 /\ last.op = "set_inputs" /\ last.ok
    /\ \E key \in last.named : key[1] # key[2]
    /\ \E key \in DOMAIN recent \ last.named :
          key[1] # key[2] /\ recent[key] \in {0, 90}

\* C9: set_inputs with a key outside the input pairs of the constructor
\* fails and leaves the inputs mapping and the angle cells as they were.
C9_ForeignInputsRejected ==
    (last.op = "set_inputs" /\ last.named \ ctor.inputs # {}) =>
        /\ ~last.ok
        /\ solver.inputs = last.before.inputs
        /\ solver.inputs_angle = last.before.inputs_angle

\* C9 witness: a rejected dict that names a driver of the solver next to a
\* foreign pair.
C9_Witness ==
    /\ last.op = "set_inputs" /\ ~last.ok
    /\ last.named \ ctor.inputs # {}
    /\ \E key \in last.named \cap ctor.inputs : key[1] # key[2]

\* The keys of the last call's dict after _sort_pairs.
NamedSorted == {SortedKey(key) : key \in last.named}

\* What a rejected set_data leaves alone.
DataUntouched ==
    /\ ~last.ok
    /\ solver.data_dict = last.before.data_dict
    /\ solver.data_values = last.before.data_values

\* C10: set_data with a key that was not in the data_dict handed to the
\* constructor fails and leaves data_dict and data_values as they were.
C10_UndeclaredDataRejected ==
    (last.op = "set_data" /\ NamedSorted \ ctor.data # {}) => DataUntouched

\* C10 amended: set_data with a key outside show_data(), which is the
\* constructor's keys and the link-length pairs build cached, fails and
\* leaves data_dict and data_values as they were.
C10_UnknownDataRejected ==
    (last.op = "set_data" /\ NamedSorted \ show_data(last.before) # {}) =>
        DataUntouched

\* C10 witness: a rejected set_data on a solver whose build cached a pair,
\* the dict naming that pair next to an unknown key.
C10_Witness ==
    /\ last.op = "set_data" /\ ~last.ok
    /\ NamedSorted \ show_data(last.before) # {}
    /\ (NamedSorted \cap show_data(last.before)) \ ctor.data # {}

\* The entry the claim describes for joint i: read through the Point and
\* the slider base the build made for joint i itself.
OwnEntry(i) ==
    LET b   == ctor.built
        pin == <<Deref(solver, b.points[i + 1].x), Deref(solver, b.points[i + 1].y)>>
    IN  IF b.vpoints[i].type = "R" THEN pin
        ELSE LET base == b.slider_bases[b.sliders[i] + 1]
             IN  <<<<Deref(solver, base.x), Deref(solver, base.y)>>, pin>>

\* C11: when the minimizer reports Success solve returns one entry per
\* joint, read from the joint's own Point and, for a slider, from the slider
\* base registered for that joint; on any other status it raises.
C11_SolveReadsOwnRecords ==
    (last.op = "solve") =>
        IF probe.flag = "Success"
        THEN /\ probe.ok
             /\ DOMAIN probe.result = DOMAIN solver.vpoints
             /\ \A i \in DOMAIN solver.vpoints :
                   /\ solver.vpoints[i].type # "R" => i \in DOMAIN ctor.built.sliders
                   /\ probe.result[i] = OwnEntry(i)
        ELSE ~probe.ok

\* The pools and the records that point into them are entry for entry the
\* ones the build made; the doubles held by the cells may differ.
SameShape(s, t) ==
    /\ \A pool \in {"params", "constants", "data_values", "inputs_angle"} :
          Len(s[pool]) = Len(t[pool])
    /\ s.cons_list = t.cons_list
    /\ s.points = t.points
    /\ s.slider_bases = t.slider_bases /\ s.slider_slots = t.slider_slots
    /\ s.slider_lines = t.slider_lines /\ s.handles = t.handles

\* C12: whatever calls were made on the solver, its pools have the entries
\* the build gave them, in the same order, the constraints refer to the same
\* cells, and no call wrote through an iterator that had left its pool (such
\* a write lands on the bookkeeping of the list, not on a cell).
C12_PoolsKeptByCalls ==
    solver # <<>> => (SameShape(solver, ctor.built) /\ ~last.wild)

\* The sliders the build made a slot line for, and that line: the first
\* line from the slider's base to its slot point.
Slotted == DOMAIN ctor.built.sliders

SlotLine(a) ==
    LET b == ctor.built.sliders[a]
    IN  Ref("slider_lines",
            CHOOSE k \in DOMAIN ctor.built.slider_lines :
                ctor.built.slider_lines[k] = [p1 |-> Ref("slider_bases", b),
                                              p2 |-> Ref("slider_slots", b)])

ConsWhere(Test(_)) == {k \in DOMAIN ctor.built.cons_list : Test(ctor.built.cons_list[k])}

\* C25: for every slider the build made a slot line for, the constraint list
\* holds exactly one PointOnLine constraint, and it puts the Point of that
\* joint on that slot line.
C25_PinOnOwnSlot ==
    solver # <<>> =>
        \A a \in Slotted :
            LET OnSlot(con) == /\ con.type = "PointOnLine"
                               /\ con.point1 = Ref("points", a)
                               /\ con.line1 = SlotLine(a)
                Mine(con)   == /\ con.type = "PointOnLine"
                               /\ con.point1 = Ref("points", a) \/ con.line1 = SlotLine(a)
            IN  /\ Cardinality(ConsWhere(OnSlot)) = 1
                /\ ConsWhere(Mine) = ConsWhere(OnSlot)

\* The constraints between the base of slider a and its pin Point that refer
\* to no length of a link.
BasePinCons(a, type) ==
    LET Is(con) == /\ con.type = type
                   /\ con.point1 = Ref("slider_bases", ctor.built.sliders[a])
                   /\ con.point2 = Ref("points", a)
                   /\ con.parameter[1] # "data_values"
    IN  ConsWhere(Is)

Magnitude(v) == IF v < 0 THEN 0 - v ELSE v

\* C26: for every slider with a slot line the build emits, between slot base
\* and pin, nothing when the offset is inactive, one PointOnPoint constraint
\* when the active offset is 0, and otherwise one P2P-distance constraint
\* whose distance is |offset|.
C26_OffsetConstraint ==
    solver # <<>> =>
        \A a \in Slotted :
            LET vp   == ctor.built.vpoints[a]
                dist == BasePinCons(a, "P2PDistance")
                same == BasePinCons(a, "PointOnPoint")
            IN  IF ~has_offset(vp) THEN dist = {} /\ same = {}
                ELSE IF vp.offset = 0 THEN dist = {} /\ Cardinality(same) = 1
                ELSE /\ same = {}
                     /\ Cardinality(dist) = 1
                     /\ \A k \in dist :
                           Deref(ctor.built, ctor.built.cons_list[k].parameter)
                               = Thousandths(Magnitude(vp.offset))

\* c[0] of joint i as the build saw it, in thousandths.
BuildTimeC0(i) ==
    <<Thousandths(ctor.built.vpoints[i].c[1][1]),
      Thousandths(ctor.built.vpoints[i].c[1][2])>>

\* Joint i is link-less, or a grounded R joint without known coordinates.
Rigid(i) ==
    LET vp == ctor.built.vpoints[i]
    IN  \/ no_link(vp)
        \/ /\ vp.type = "R" /\ grounded(vp)
           /\ JointKey(i) \notin DOMAIN ctor.built.data_dict

\* C27: the Point of a link-less joint and of a grounded R joint without
\* known coordinates refers to no cell of params, and every solve that
\* reports Success returns such a joint, and the slot anchor of a grounded
\* slider, at the c[0] the build read.
C27_RigidJointsStay ==
    solver # <<>> =>
        /\ \A i \in DOMAIN ctor.built.vpoints :
              Rigid(i) => /\ ctor.built.points[i + 1].x[1] # "params"
                          /\ ctor.built.points[i + 1].y[1] # "params"
        /\ (probe.op = "solve" /\ probe.ok) =>
              \A i \in DOMAIN ctor.built.vpoints :
                  LET vp == ctor.built.vpoints[i]
                  IN  /\ (Rigid(i) /\ vp.type = "R") => probe.result[i] = BuildTimeC0(i)
                      /\ (Rigid(i) /\ vp.type # "R") =>
                            probe.result[i] = <<BuildTimeC0(i), BuildTimeC0(i)>>
                      /\ (vp.type # "R" /\ grounded(vp)) =>
                            probe.result[i][1] = BuildTimeC0(i)

\* vs has the link memberships of the solver's joints, joint by joint.
SameMemberships(vs) ==
    /\ DOMAIN vs = DOMAIN solver.vpoints
    /\ \A i \in DOMAIN vs : vs[i].links = solver.vpoints[i].links

\* C13: same_points(vs) returns true exactly when vs has as many joints as
\* the solver and the same links at every index, and false otherwise.
C13_SamePointsIsStructural ==
    (probe.op = "same_points") =>
        /\ ~probe.raised
        /\ probe.result <=> SameMemberships(probe.arg)

\* ------------------------------------------------------ VPoint: the joint
\* The characters of the link texts: two letters, the comma, the space.
Chars == {"a", "b", ",", " "}

LinkTexts == UNION { [1 .. n -> Chars] : n \in 0 .. MaxLinkChars }

\* Where joints are moved to; the joint is designed at the origin.
Spots == { <<3, 4>>, <<6, 8>> }

\* Angles handed to rotate: whole degrees, and a hair below and above zero.
Angles ==
    { Double(w, 0) : w \in {-190, -30, 0, 45, 180, 200} }
        \cup { Double(0, -1), Double(0, 1) }

\* The second joint: a slider on the links b and a, a pin on the link a.
Mates ==
    { VPoint(<<"b", ",", "a">>, "RP", Double(0, 0), 6, 8),
      VPoint(<<"a">>, "R", Double(0, 0), 3, 4) }

\* ndarray(2, dtype=object): an array object no joint holds yet.
ndarray(held) == 1 + (IF held.joint > held.twin THEN held.joint ELSE held.twin)

VPointInit ==
    /\ TIdle
    /\ SolverIdle
    /\ text \in LinkTexts
    /\ \E j_type \in {"R", "RP"} : joint = VPoint(text, j_type, Double(0, 0), 0, 0)
    /\ mate \in Mates
    /\ twin = None
    /\ probe = [op |-> "none"]
    /\ steps = 0
    /\ turned = None
    /\ arrays = [joint |-> ndarray([joint |-> 0, twin |-> 0]), twin |-> 0]

Step ==
    /\ steps < MaxSteps
    /\ steps' = steps + 1
    /\ UNCHANGED <<tvars, svars, mate, text>>

\* joint.move(c1, c2): the write goes to the array, so to every joint that
\* holds it.
Move ==
    /\ Step
    /\ \E c1 \in Spots, c2 \in Spots \cup {None} :
          /\ joint' = move(joint, c1, c2)
          /\ twin' = IF twin # None /\ arrays.twin = arrays.joint
                     THEN [twin EXCEPT !.c = joint'.c] ELSE twin
    /\ probe' = [op |-> "move"]
    /\ UNCHANGED <<turned, arrays>>

\* joint.rotate(angle)
Rotate ==
    /\ Step
    /\ \E angle \in Angles :
          /\ joint' = rotate(joint, angle)
          /\ turned' = angle
    /\ probe' = [op |-> "rotate"]
    /\ UNCHANGED <<twin, arrays>>

\* joint.set_offset(offset)
SetOffset ==
    /\ Step
    /\ joint' = set_offset(joint, 5)
    /\ probe' = [op |-> "set_offset"]
    /\ UNCHANGED <<twin, turned, arrays>>

\* joint.disable_offset()
DisableOffset ==
    /\ Step
    /\ joint' = disable_offset(joint)
    /\ probe' = [op |-> "disable_offset"]
    /\ UNCHANGED <<twin, turned, arrays>>

\* twin = joint.copy(): __cinit__ gives the copy an array of its own
Copy ==
    /\ Step
    /\ twin' = copy(joint)
    /\ arrays' = [arrays EXCEPT !.twin = ndarray(arrays)]
    /\ probe' = [op |-> "copy", equal |-> __richcmp__(copy(joint), joint)]
    /\ UNCHANGED <<joint, turned>>

\* twin.move(c1, c2)
MoveCopy ==
    /\ Step
    /\ twin # None
    /\ \E c1 \in Spots, c2 \in Spots \cup {None} :
          /\ twin' = move(twin, c1, c2)
          /\ joint' = IF arrays.twin = arrays.joint
                      THEN [joint EXCEPT !.c = twin'.c] ELSE joint
    /\ probe' = [op |-> "move_copy", c |-> joint.c]
    /\ UNCHANGED <<turned, arrays>>

\* joint.distance(mate) and mate.distance(joint), in one interpreter
CallDistance ==
    /\ Step
    /\ \E layout \in Layouts :
          probe' = [op |-> "distance",
                    there |-> Distance(joint, mate, layout),
                    back  |-> Distance(mate, joint, layout)]
    /\ UNCHANGED <<joint, twin, turned, arrays>>

\* joint.slope_angle(mate, num1, num2)
SlopeAngle ==
    /\ Step
    /\ \E num1 \in 0 .. 2, num2 \in 0 .. 2 :
          probe' = IF SlopeAngleRaises(joint, mate, num1, num2)
                   THEN [op |-> "slope_angle", num1 |-> num1, num2 |-> num2,
                         raised |-> TRUE, me |-> None, other |-> None,
                         result |-> 0]
                   ELSE LET r == SlopeAngleReads(joint, mate, num1, num2)
                        IN  [op |-> "slope_angle", num1 |-> num1, num2 |-> num2,
                             raised |-> FALSE, me |-> r.me, other |-> r.other,
                             result |-> slope_angle(joint, mate, num1, num2)]
    /\ UNCHANGED <<joint, twin, turned, arrays>>

VPointNext ==
    \/ SlopeAngle
    \/ CallDistance
    \/ Move
    \/ Rotate
    \/ SetOffset
    \/ DisableOffset
    \/ Copy
    \/ MoveCopy

VPointSpec == VPointInit /\ [][VPointNext]_vars

\* ----------------------------------------------------- VPoint: the claims
\* C14: the copy just taken of a joint is equal to the joint and has the
\* joint's current coordinates c; moving the copy afterwards leaves the c of
\* the joint as it was.
C14_CopyIsEqualAndApart ==
    /\ (probe.op = "copy") =>
          /\ probe.equal
          /\ twin.c = joint.c
    /\ (probe.op = "move_copy") => joint.c = probe.c

\* A slider moved to two different spots was copied, and the copy was then
\* moved away from where the slider is.
C14_Witness ==
    /\ probe.op = "move_copy"
    /\ joint.type = "RP"
    /\ joint.c[1] # joint.c[2]
    /\ twin.c # joint.c
    /\ Len(joint.links) = 2

\* C15: the distance from a joint to another is the distance from the other
\* to it, and is not negative, sliders that share several links included.
C15_DistanceIsSymmetric ==
    (probe.op = "distance") =>
        /\ probe.there = probe.back
        /\ probe.there >= 0

\* The end of joint vp that num names: c[0] for 0, c[1] for 1, the design
\* coordinates from 2 on.
EndNamed(vp, num) == IF num > 1 THEN <<vp.x, vp.y>> ELSE vp.c[num + 1]

\* C16: slope_angle reads the end of self that num1 names and the end of the
\* other joint that num2 names, wherever both joints have those ends.
C16_EndsChosenApart ==
    (/\ probe.op = "slope_angle"
     /\ EndNamed(joint, probe.num1) # None
     /\ EndNamed(mate, probe.num2) # None) =>
        /\ ~probe.raised
        /\ probe.me = EndNamed(joint, probe.num1)
        /\ probe.other = EndNamed(mate, probe.num2)

\* C17 as stated: the angle is that of the vector from the other joint to
\* self, atan2 being handed (self - other).
C17_SlopeFromOtherToSelf ==
    (probe.op = "slope_angle" /\ ~probe.raised) =>
        probe.result = atan2(probe.me[2] - probe.other[2],
                             probe.me[1] - probe.other[1])

\* C17: the angle slope_angle returns is that of the vector pointing from
\* self to the other joint: atan2 is handed (other - self) of the two ends
\* read.
C17_SlopeFromSelfToOther ==
    (probe.op = "slope_angle" /\ ~probe.raised) =>
        probe.result = atan2(probe.other[2] - probe.me[2],
                             probe.other[1] - probe.me[1])

\* The slope from the joint at the origin to a mate up and to the right of it
\* was taken and is 53 degrees, not the -127 of the opposite vector.
C17_Witness ==
    /\ probe.op = "slope_angle" /\ ~probe.raised
    /\ probe.num1 = 2 /\ probe.num2 = 2
    /\ probe.me = <<0, 0>> /\ probe.other = <<3, 4>>
    /\ probe.result = 53

\* C18: the links of a joint are the names of its link text in the order
\* they first occur, none of them empty or holding a space or a comma, and
\* none of them twice.
C18_LinksAreDeduped ==
    (joint # None) =>
        /\ joint.links = FirstOccurrences(ParseLinks(text))
        /\ \A i \in DOMAIN joint.links :
              /\ joint.links[i] # <<>>
              /\ \A k \in DOMAIN joint.links[i] : joint.links[i][k] \notin {" ", ","}
        /\ \A i, k \in DOMAIN joint.links : joint.links[i] = joint.links[k] => i = k

\* The angle is at least 0 and below 180.
InHalfTurn(d) == ~Negative(d) /\ d.whole < 180

\* Two angles differ by a whole number of half turns.
CongruentMod180(d, a) ==
    /\ d.tiny = a.tiny
    /\ \E k \in -3 .. 3 : d.whole - a.whole = 180 * k

\* C19: once rotate(a) was called the angle of the joint is at least 0, below
\* 180 and congruent to a modulo 180, whatever moves, offset calls and copies
\* follow; a copy taken then has such an angle too.
C19_AngleInHalfTurn ==
    (turned # None) =>
        /\ InHalfTurn(joint.angle)
        /\ CongruentMod180(joint.angle, turned)
        /\ (twin # None) => InHalfTurn(twin.angle)

\* C30: the copy just taken of a joint has the joint's offset state: the same
\* has_offset() and the same offset().
C30_CopyKeepsOffset ==
    (probe.op = "copy") =>
        /\ has_offset(twin) = has_offset(joint)
        /\ twin.offset = joint.offset

\* ------------------------------------------- triangulation: _clockwise
\* The points the orientation test is handed.
Corners == { <<0, 0>>, <<3, 0>>, <<0, 4>>, <<3, 4>>, <<6, 8>> }

ClockwiseInit ==
    /\ TIdle
    /\ SolverIdle
    /\ joint = <<>> /\ mate = <<>> /\ twin = <<>> /\ steps = 0
    /\ text = <<>> /\ turned = <<>> /\ arrays = <<>>
    /\ \E c1 \in Corners, c2 \in Corners, c3 \in Corners :
          probe = [op |-> "points", c1 |-> c1, c2 |-> c2, c3 |-> c3]

\* _clockwise(c1, c2, c3)
Clockwise ==
    /\ probe.op = "points"
    /\ probe' = [op |-> "_clockwise", c1 |-> probe.c1, c2 |-> probe.c2,
                 c3 |-> probe.c3,
                 result |-> _clockwise(probe.c1, probe.c2, probe.c3)]
    /\ UNCHANGED <<tvars, svars, joint, mate, twin, steps, text, turned, arrays>>

ClockwiseNext == Clockwise

ClockwiseSpec == ClockwiseInit /\ [][ClockwiseNext]_vars

\* cross((c2 - c1), (c3 - c2)) of the three points of the last test.
Cross ==
    (probe.c2[1] - probe.c1[1]) * (probe.c3[2] - probe.c2[2])
        - (probe.c2[2] - probe.c1[2]) * (probe.c3[1] - probe.c2[1])

\* C20 as stated: the orientation test is true exactly when the cross
\* product is at least 0.
C20_TrueWhenCrossNotNegative ==
    (probe.op = "_clockwise") => (probe.result <=> Cross >= 0)

\* C20: the orientation test is true exactly when the cross product
\* cross((c2 - c1), (c3 - c2)) is at most 0, zero (collinear) included.
C20_TrueWhenCrossNotPositive ==
    (probe.op = "_clockwise") => (probe.result <=> Cross <= 0)

\* A right turn was tested and found clockwise.
C20_Witness ==
    /\ probe.op = "_clockwise"
    /\ Cross < 0
    /\ probe.result

====
